---------------------------- MODULE Spec2Model ----------------------------
(***************************************************************************)
(* OmniSeller backend (src/server.js, version 3.5): the TikTok Shop        *)
(* connector.  The module models                                          *)
(*   - calculateSignature, the request-signing function;                   *)
(*   - the tables stores and marketplace_configs;                          *)
(*   - the HTTP handlers that read and write them, one action per step     *)
(*     between two awaits of a handler.                                    *)
(*                                                                         *)
(* Strings that are concatenated or compared by the code are sequences of  *)
(* UTF-16 code units (naturals); opaque identifiers are TLA+ strings.      *)
(***************************************************************************)
EXTENDS Integers, Sequences, FiniteSets, TLC

(***************************************************************************)
(* Bounds of the model.                                                    *)
(***************************************************************************)
\* largest number of keys set on a parameter object in SigSpec
MaxParams == 3

(***************************************************************************)
(* String literals of the source, as code-unit sequences.                  *)
(***************************************************************************)
\* 'sign'
s_sign == <<115, 105, 103, 110>>
\* 'access_token'
s_access_token == <<97, 99, 99, 101, 115, 115, 95, 116, 111, 107, 101, 110>>
\* 'app_key'
s_app_key == <<97, 112, 112, 95, 107, 101, 121>>
\* 'timestamp'
s_timestamp == <<116, 105, 109, 101, 115, 116, 97, 109, 112>>
\* 'shop_cipher'
s_shop_cipher == <<115, 104, 111, 112, 95, 99, 105, 112, 104, 101, 114>>
\* 'version'
s_version == <<118, 101, 114, 115, 105, 111, 110>>
\* '202309'
s_202309 == <<50, 48, 50, 51, 48, 57>>

(***************************************************************************)
(* JavaScript and SQL values.  A text that the code concatenates, slices   *)
(* or sorts is StrVal of its code units; a text it only passes on (a user  *)
(* id, a token) is Tok of a name.                                          *)
(***************************************************************************)
StrVal(s) == [t |-> "str", s |-> s]
Tok(id) == [t |-> "str", id |-> id]
NumVal(n) == [t |-> "num", n |-> n]
\* null, and SQL NULL (node-postgres maps one to the other)
Null == [t |-> "null"]
Undefined == [t |-> "undefined"]

(***************************************************************************)
(* JavaScript primitives used by calculateSignature.                       *)
(***************************************************************************)
\* the code unit of a decimal digit
DigitChar(d) == 48 + d

RECURSIVE NumberToString(_)
\* Number.prototype.toString for a non-negative integer
NumberToString(n) ==
    IF n < 10 THEN <<DigitChar(n)>>
    ELSE NumberToString(n \div 10) \o <<DigitChar(n % 10)>>

\* 'null'
s_null == <<110, 117, 108, 108>>
\* 'undefined'
s_undefined == <<117, 110, 100, 101, 102, 105, 110, 101, 100>>

\* the string a value contributes to `key + queryParams[key]`
StringOf(v) ==
    CASE v.t = "num" -> NumberToString(v.n)
      [] v.t = "null" -> s_null
      [] v.t = "undefined" -> s_undefined
      [] OTHER -> v.s

RECURSIVE StrLess(_, _)
\* a < b by UTF-16 code units, the order of Array.prototype.sort() without
\* a comparator
StrLess(a, b) ==
    IF b = <<>> THEN FALSE
    ELSE IF a = <<>> THEN TRUE
    ELSE IF Head(a) # Head(b) THEN Head(a) < Head(b)
    ELSE StrLess(Tail(a), Tail(b))

IsDigits(s) == \A i \in 1..Len(s) : s[i] \in 48..57

RECURSIVE DigitsValue(_)
DigitsValue(s) ==
    IF s = <<>> THEN 0 ELSE DigitsValue(SubSeq(s, 1, Len(s) - 1)) * 10 + (s[Len(s)] - 48)

\* an integer-like property name ("0", "7", "10"; not "", "07"): such keys
\* come first in Object.keys, in ascending numeric order
IsArrayIndex(s) ==
    /\ s # <<>>
    /\ IsDigits(s)
    /\ (Len(s) > 1 => s[1] # 48)

\* insert x in a sequence sorted by Less(_, _), after the elements it is not
\* less than
InsertBy(Less(_, _), x, sorted) ==
    LET before == {i \in 1..Len(sorted) : Less(x, sorted[i])}
        p == IF before = {} THEN Len(sorted) + 1
             ELSE CHOOSE i \in before : \A j \in before : i <= j
    IN  SubSeq(sorted, 1, p - 1) \o <<x>> \o SubSeq(sorted, p, Len(sorted))

\* a stable sort of a sequence by Less(_, _)
SortBy(Less(_, _), seq) ==
    LET sortedPrefix[i \in 0..Len(seq)] ==
            IF i = 0 THEN <<>> ELSE InsertBy(Less, seq[i], sortedPrefix[i - 1])
    IN  sortedPrefix[Len(seq)]

(***************************************************************************)
(* A JavaScript object with string keys: the sequence of its <<key, value>>*)
(* pairs in insertion order, keys distinct.                                *)
(***************************************************************************)
KeyIndex(obj, k) ==
    IF \E i \in 1..Len(obj) : obj[i][1] = k
    THEN CHOOSE i \in 1..Len(obj) : obj[i][1] = k
    ELSE 0

HasKey(obj, k) == KeyIndex(obj, k) # 0

\* obj[k]
Get(obj, k) == obj[KeyIndex(obj, k)][2]

\* obj[k] = v: an existing key keeps its place, a new key goes last
Put(obj, k, v) ==
    IF HasKey(obj, k)
    THEN [obj EXCEPT ![KeyIndex(obj, k)] = <<k, v>>]
    ELSE Append(obj, <<k, v>>)

NumLess(a, b) == DigitsValue(a) < DigitsValue(b)

\* Object.keys(obj): the integer-like keys in ascending numeric order, then
\* the other keys in insertion order
ObjectKeys(obj) ==
    LET names == [i \in 1..Len(obj) |-> obj[i][1]]
        IsIdx(k) == IsArrayIndex(k)
        NotIdx(k) == ~IsArrayIndex(k)
    IN  SortBy(NumLess, SelectSeq(names, IsIdx)) \o SelectSeq(names, NotIdx)

(***************************************************************************)
(* calculateSignature (src/server.js 26-41).                               *)
(***************************************************************************)
\* crypto.createHmac('sha256', key).update(msg).digest('hex'): HMAC-SHA256
\* as an ideal keyed hash, whose digests are equal exactly when key and
\* message are equal
HmacSha256Hex(key, msg) == [hmac |-> "sha256", key |-> key, msg |-> msg]

\* the filter drops only 'sign'
SignedKeyFilter_SignOnly(k) == k # s_sign

\* .filter(k => k !== 'sign' && k !== 'access_token')
SignedKeyFilter(k) == k # s_sign /\ k # s_access_token

\* the keys are left in Object.keys order
SortKeys_Unsorted(keys) == keys

\* .sort()
SortKeys(keys) == SortBy(StrLess, keys)

\* const keys = Object.keys(queryParams).filter(...).sort()
SignedKeys(queryParams) == SortKeys(SelectSeq(ObjectKeys(queryParams), SignedKeyFilter))

RECURSIVE ConcatPairs(_, _)
\* for (const key of keys) input += key + queryParams[key]
ConcatPairs(keys, queryParams) ==
    IF keys = <<>> THEN <<>>
    ELSE Head(keys) \o StringOf(Get(queryParams, Head(keys)))
            \o ConcatPairs(Tail(keys), queryParams)

\* the secret is put in front of the string only
SignatureInput_NoSuffix(appSecret, path, queryParams) ==
    appSecret \o path \o ConcatPairs(SignedKeys(queryParams), queryParams)

\* the string that is signed
SignatureInput(appSecret, path, queryParams) ==
    appSecret \o path \o ConcatPairs(SignedKeys(queryParams), queryParams) \o appSecret

calculateSignature(appSecret, path, queryParams) ==
    HmacSha256Hex(appSecret, SignatureInput(appSecret, path, queryParams))

(***************************************************************************)
(* State.                                                                  *)
(***************************************************************************)
VARIABLES
    sig,        \* a call of calculateSignature: its arguments and its result;
                \* a request of the proxy built from the same arguments
    norm,       \* a call of a mapping: its kind, its argument and its result
    stores,     \* table stores: a set of rows
    configs,    \* table marketplace_configs: a set of rows
    nextId,     \* the serial of stores.id
    clock,      \* NOW() and Date.now(), in ticks
    req         \* the HTTP requests in flight, by slot

vars == <<sig, norm, stores, configs, nextId, clock, req>>
sysVars == <<stores, configs, nextId, clock, req>>

\* no mapping is called
NormIdle == [kind |-> "none", arg |-> <<>>, out |-> <<>>]

(***************************************************************************)
(* SigSpec: calculateSignature applied to parameter objects built key by   *)
(* key.                                                                    *)
(***************************************************************************)
\* 's', 'S2'
SigSecrets == {<<115>>, <<83, 50>>}
\* '/a', '/b'
SigPaths == {<<47, 97>>, <<47, 98>>}
\* 'sign', 'access_token', 'app_key', 'timestamp', '10'
SigKeys == {s_sign, s_access_token, s_app_key, s_timestamp, <<49, 48>>}
\* 'x', 10
SigValues == {StrVal(<<120>>), NumVal(10)}

\* queryParams[k] = v
SigPut(k, v) ==
    /\ HasKey(sig.obj, k) \/ Len(sig.obj) < MaxParams
    /\ sig' = [sig EXCEPT !.obj = Put(sig.obj, k, v), !.out = <<>>, !.sent = <<>>]
    /\ UNCHANGED <<norm, sysVars>>

\* calculateSignature(secret, path, queryParams)
SigApply ==
    /\ sig.out = <<>>
    /\ sig' = [sig EXCEPT !.out = <<calculateSignature(sig.secret, sig.path, sig.obj)>>]
    /\ UNCHANGED <<norm, sysVars>>

SigNext ==
    \/ \E k \in SigKeys, v \in SigValues : SigPut(k, v)
    \/ SigApply

(***************************************************************************)
(* The system: constants of the source and the inputs of the model.        *)
(***************************************************************************)
\* total number of HTTP requests of a behaviour
MaxRequests == 3

\* 'u-admin-01', the user whose marketplace_configs row every handler reads
ADMIN == "u-admin-01"
\* 'u-1234-5678', the demo seller
SELLER == "u-1234-5678"
UserIds == {ADMIN, SELLER}

\* 'TikTok Shop'
TIKTOK == "TikTok Shop"
Marketplaces == {TIKTOK, "Shopee"}

\* app credentials that a settings form can carry: 'kA'/'sA', 'kB'/'sB'
Credentials ==
    { [app_key |-> StrVal(<<107, 65>>), app_secret |-> StrVal(<<115, 65>>)],
      [app_key |-> StrVal(<<107, 66>>), app_secret |-> StrVal(<<115, 66>>)] }

\* shop ciphers the token endpoint returns: 'cipher-1', 'cipher-2'
Cipher1 == <<99, 105, 112, 104, 101, 114, 45, 49>>
Cipher2 == <<99, 105, 112, 104, 101, 114, 45, 50>>

\* 'TikTok Shop ', the prefix of a synthesized store name
s_TikTok_Shop_ == <<84, 105, 107, 84, 111, 107, 32, 83, 104, 111, 112, 32>>
\* 'Toko', a seller_name
s_Toko == <<84, 111, 107, 111>>
\* 'Manual', the name given to POST /api/stores
s_Manual == <<77, 97, 110, 117, 97, 108>>

(***************************************************************************)
(* JavaScript values and operators, as far as the handlers use them.  A    *)
(* thrown exception is the value Throw, which every operator passes on.    *)
(***************************************************************************)
Throw == [t |-> "throw"]
NaN == [t |-> "nan"]
Obj(o) == [t |-> "obj", o |-> o]
Arr(a) == [t |-> "arr", a |-> a]

\* v.k: a TypeError on undefined and null
Prop(v, k) ==
    CASE v.t \in {"throw", "undefined", "null"} -> Throw
      [] v.t = "obj" -> IF k \in DOMAIN v.o THEN v.o[k] ELSE Undefined
      [] OTHER -> Undefined

\* v[i], i counted from 0
At(v, i) ==
    CASE v.t \in {"throw", "undefined", "null"} -> Throw
      [] v.t = "arr" -> IF i + 1 <= Len(v.a) THEN v.a[i + 1] ELSE Undefined
      [] OTHER -> Undefined

\* ToBoolean
Truthy(v) ==
    CASE v.t \in {"undefined", "null", "nan"} -> FALSE
      [] v.t = "num" -> v.n # 0
      [] v.t = "str" -> IF "s" \in DOMAIN v THEN v.s # <<>> ELSE v.id # ""
      [] v.t = "bool" -> v.b
      [] OTHER -> TRUE

\* a && b
And(a, b) == IF a.t = "throw" THEN Throw ELSE IF Truthy(a) THEN b ELSE a
\* a || b
Or(a, b) == IF a.t = "throw" THEN Throw ELSE IF Truthy(a) THEN a ELSE b
\* c ? a : b
Cond(c, a, b) == IF c.t = "throw" THEN Throw ELSE IF Truthy(c) THEN a ELSE b

(***************************************************************************)
(* SQL on the two tables.  A comparison with NULL is never true.           *)
(***************************************************************************)
SqlEq(a, b) == a # Null /\ b # Null /\ a = b

\* node-postgres sends undefined as NULL
SqlParam(v) == IF v = Undefined THEN Null ELSE v

\* the sequences that list the elements of a set once each: the orders in
\* which a SELECT without ORDER BY may return its rows
Orderings(S) ==
    LET n == Cardinality(S)
    IN  {q \in [1..n -> S] : \A i, j \in 1..n : q[i] = q[j] => i = j}

\* the WHERE clause names the marketplace only
SelectConfig_AnyUser(userId, marketplace) ==
    {c \in configs : c.marketplace = marketplace}

\* SELECT * FROM marketplace_configs WHERE user_id = $1 AND marketplace = $2
SelectConfig(userId, marketplace) ==
    {c \in configs : SqlEq(c.user_id, SqlParam(userId)) /\ c.marketplace = marketplace}

\* the SELECT finds no row, so that the callback always INSERTs
SelectStoreByShop_None(userId, shopId) == {}

\* SELECT id FROM stores WHERE user_id = $1 AND marketplace_shop_id = $2
SelectStoreByShop(userId, shopId) ==
    {s \in stores : SqlEq(s.user_id, SqlParam(userId))
                    /\ SqlEq(s.marketplace_shop_id, SqlParam(shopId))}

\* with a storeId, the row is selected by its id alone
SelectStoresOfUser_ById(userId, storeId) ==
    IF Truthy(storeId) THEN {s \in stores : s.id = storeId.n}
    ELSE {s \in stores : SqlEq(s.user_id, SqlParam(userId))}

\* SELECT * FROM stores WHERE user_id = $1 [AND id = $2]
SelectStoresOfUser(userId, storeId) ==
    {s \in stores : SqlEq(s.user_id, SqlParam(userId))
                    /\ (Truthy(storeId) => s.id = storeId.n)}

\* the rows of the same shop are deleted before the INSERT
InsertStore_ReplaceShop(row) ==
    {s \in stores : s.marketplace_shop_id # row.marketplace_shop_id}
        \cup {[row EXCEPT !.id = nextId]}

\* INSERT INTO stores (...) VALUES (...): id from the serial
InsertStore(row) == stores \cup {[row EXCEPT !.id = nextId]}

\* a row that is inserted without its tokens
StoreRow_NoTokens(userId, marketplace, name, access, refresh, shopId, lastSync) ==
    [id |-> 0, user_id |-> SqlParam(userId), marketplace |-> marketplace,
     store_name |-> SqlParam(name), access_token |-> Null, refresh_token |-> Null,
     marketplace_shop_id |-> SqlParam(shopId), is_connected |-> TRUE, last_sync |-> lastSync,
     token_expiry |-> Null]

\* the row of an INSERT INTO stores, before its id is drawn.  No statement
\* of the server names the column token_expiry, which the copy of the server
\* in src/unnamed/part_001 (185, 195) writes: it keeps its default
StoreRow(userId, marketplace, name, access, refresh, shopId, lastSync) ==
    [id |-> 0, user_id |-> SqlParam(userId), marketplace |-> marketplace,
     store_name |-> SqlParam(name), access_token |-> SqlParam(access),
     refresh_token |-> SqlParam(refresh), marketplace_shop_id |-> SqlParam(shopId),
     is_connected |-> TRUE, last_sync |-> lastSync, token_expiry |-> Null]

(***************************************************************************)
(* Requests.  A slot holds one request from its arrival to its response;   *)
(* `calls` lists the outbound HTTP calls the request has made.             *)
(***************************************************************************)
Slots == {1}

\* the slots of the server when two requests are in progress at a time
AllSlots == {1, 2}

IdleReq ==
    [pc |-> "idle", op |-> "none", query |-> <<>>, userId |-> Undefined, storeId |-> Undefined,
     cfg |-> <<>>, token |-> <<>>, found |-> <<>>, rows |-> <<>>, idx |-> 0,
     acc |-> <<>>, calls |-> <<>>, resp |-> <<>>, body |-> <<>>, client |-> "none"]

NewReq(op) == [IdleReq EXCEPT !.op = op]

\* res.status(status).send(body) / res.json(body)
Respond(q, status, body) ==
    [q EXCEPT !.pc = "done", !.resp = <<[status |-> status, body |-> body]>>]

\* a request can arrive in a slot that holds none
Free(r) == req[r].pc = "idle" /\ clock < MaxRequests

\* the response has been sent: the slot is free again
Finish(r) ==
    /\ req[r].pc = "done"
    /\ req' = [req EXCEPT ![r] = IdleReq]
    /\ UNCHANGED <<sig, norm, stores, configs, nextId, clock>>

\* the row of marketplace_configs that holds the administrator's TikTok
\* Shop credentials, 'kA'/'sA'
AdminConfig ==
    [user_id |-> Tok(ADMIN), marketplace |-> TIKTOK,
     app_key |-> StrVal(<<107, 65>>), app_secret |-> StrVal(<<115, 65>>)]

\* The database outlives the server: it starts with no store, and with no
\* configuration or with the administrator's, saved by an earlier run.
SysInit ==
    /\ stores = {}
    /\ configs \in {{}, {AdminConfig}}
    /\ nextId = 1
    /\ clock = 0
    /\ req = [r \in AllSlots |-> IdleReq]

(***************************************************************************)
(* GET /api/auth/callback/tiktok (src/server.js 137-196).                  *)
(***************************************************************************)
\* the `state` query parameter, by the text it base64-decodes to: the JSON
\* text of a value, or a text that is no JSON
StateOfJson(v) == [t |-> "b64", json |-> <<v>>]
StateNoJson == [t |-> "b64", json |-> <<>>]

\* base64 of {"u":"<userId>"}
StateOfUser(u) == StateOfJson(Obj([u |-> Tok(u)]))

StateInputs ==
    {Undefined, StateNoJson, StateOfJson(Null), StateOfJson(NumVal(5)),
     StateOfJson(Obj([x |-> NumVal(1)]))}
        \cup {StateOfUser(SELLER)}

CodeInputs == {Undefined, Tok("auth-code")}

\* JSON.parse(Buffer.from(state, 'base64').toString()): Buffer.from throws
\* on undefined, JSON.parse on a text that is no JSON
DecodeState(state) ==
    IF state = Undefined THEN Throw
    ELSE IF state.json = <<>> THEN Throw
    ELSE state.json[1]

\* the answers of the token endpoint: a transport failure, or an envelope
TokenEnvelope(code, data) ==
    [t |-> "response",
     data |-> Obj([code |-> NumVal(code), message |-> Tok("token-message"), data |-> data])]

TokenData(access, refresh, cipher) ==
    [access_token |-> Tok(access), refresh_token |-> Tok(refresh),
     access_token_expire_in |-> NumVal(3600), shop_cipher |-> StrVal(cipher)]

TokenResponses ==
    { [t |-> "error"],
      TokenEnvelope(36004004, Undefined),
      TokenEnvelope(0, Obj(TokenData("at1", "rt1", Cipher1) @@ [seller_name |-> StrVal(s_Toko)])),
      TokenEnvelope(0, Obj(TokenData("at2", "rt2", Cipher1))),
      TokenEnvelope(0, Obj(TokenData("at3", "rt3", Cipher2))) }

\* the GET to the token endpoint
TokenCall(app_key, app_secret, code) ==
    [to |-> "token", app_key |-> app_key, app_secret |-> app_secret,
     auth_code |-> code, grant_type |-> "authorized_code"]

\* v.substring(0, n)
Substring0(v, n) ==
    IF v.t \in {"throw", "undefined", "null"} THEN Throw
    ELSE StrVal(SubSeq(v.s, 1, IF Len(v.s) < n THEN Len(v.s) ELSE n))

\* `${prefix}${v}`
Template(prefix, v) == IF v.t = "throw" THEN Throw ELSE StrVal(prefix \o StringOf(v))

\* the user whose configuration the handlers of v2.0 look up (lines 470,
\* 551): the userId of the request
ConfigOwner_Requester(userId) == userId

\* the user whose configuration the handlers look up: always 'u-admin-01'
ConfigOwner(userId) == Tok(ADMIN)

\* userId = stateObj.u
CallbackUser(stateObj) == Prop(stateObj, "u")

\* lines 138-157: the checks of code and state, the configuration lookup
\* and the token call
CallbackStart(r, code, state) ==
    /\ Free(r)
    /\ clock' = clock + 1
    /\ LET q == [NewReq("callback") EXCEPT !.query = <<[code |-> code, state |-> state]>>]
           userId == CallbackUser(DecodeState(state))
           configRes == SelectConfig(ConfigOwner(userId), TIKTOK)
       IN  IF ~Truthy(code)
           THEN req' = [req EXCEPT ![r] = Respond(q, 400, [text |-> "Error: No 'code' returned from TikTok."])]
           ELSE IF userId = Throw
           THEN req' = [req EXCEPT ![r] = Respond(q, 400, [text |-> "Error: Invalid State."])]
           ELSE IF configRes = {}
           THEN req' = [req EXCEPT ![r] =
                    Respond([q EXCEPT !.userId = userId], 400,
                            [text |-> "System Error: Admin keys missing."])]
           ELSE \E c \in configRes :
                    req' = [req EXCEPT ![r] =
                        [q EXCEPT !.pc = "cb_token", !.userId = userId, !.cfg = <<c>>,
                                  !.calls = <<TokenCall(c.app_key, c.app_secret, code)>>]]
    /\ UNCHANGED <<sig, norm, stores, configs, nextId>>

\* the token endpoint's answer is taken as a success whatever its code
TokenRejected_Never(code) == FALSE

\* if (response.data.code !== 0)
TokenRejected(code) == code # NumVal(0)

\* lines 155-166: the answer of the token endpoint and the SELECT of the
\* store
CallbackToken(r, response) ==
    /\ req[r].pc = "cb_token"
    /\ LET q == [req[r] EXCEPT !.calls[1] = @ @@ [answer |-> response]]
           data == IF response.t = "error" THEN Throw ELSE response.data
           code == Prop(data, "code")
           tokenData == Prop(data, "data")
           shopCipher == Prop(tokenData, "shop_cipher")
           shopName == Or(Prop(tokenData, "seller_name"),
                          Template(s_TikTok_Shop_, Substring0(shopCipher, 6)))
           checkStore == SelectStoreByShop(q.userId, shopCipher)
       IN  IF code = Throw
           THEN req' = [req EXCEPT ![r] =
                    Respond(q, 500, [text |-> "Internal Server Error: ", message |-> Tok("err.message")])]
           ELSE IF TokenRejected(code)
           THEN req' = [req EXCEPT ![r] =
                    Respond(q, 500, [text |-> "TikTok Token Error: ", message |-> Prop(data, "message")])]
           ELSE IF shopName = Throw
           THEN req' = [req EXCEPT ![r] =
                    Respond(q, 500, [text |-> "Internal Server Error: ", message |-> Tok("err.message")])]
           ELSE \E found \in Orderings({s.id : s \in checkStore}) :
                    req' = [req EXCEPT ![r] =
                        [q EXCEPT !.pc = "cb_write", !.found = found,
                                  !.token = <<[data |-> tokenData, shopName |-> shopName]>>]]
    /\ UNCHANGED <<sig, norm, stores, configs, nextId, clock>>

\* UPDATE stores SET access_token = $1, refresh_token = $2,
\* is_connected = TRUE, last_sync = NOW() WHERE id = $3
UpdateStoreTokens(id, access, refresh) ==
    {IF s.id = id
     THEN [s EXCEPT !.access_token = SqlParam(access), !.refresh_token = SqlParam(refresh),
                    !.is_connected = TRUE, !.last_sync = clock]
     ELSE s : s \in stores}

\* The schema of table stores is not part of the repository.  With
\* stores.user_id declared NOT NULL, the INSERT of a row without user fails
\* after drawing the serial, and the handler's catch answers 500; without
\* the constraint the row is inserted.  Both are outcomes of the model.
\* Likewise the INSERT of a second row for a user and a shop, which only a
\* request that overlaps another can attempt, fails under a unique
\* constraint on (user_id, marketplace_shop_id) and succeeds without one.
\* lines 168-194: the UPDATE or the INSERT, and the success page
CallbackWrite(r) ==
    /\ req[r].pc = "cb_write"
    /\ LET q == req[r]
           tokenData == q.token[1].data
           shopName == q.token[1].shopName
           access == Prop(tokenData, "access_token")
           refresh == Prop(tokenData, "refresh_token")
           ok == Respond(q, 200, [html |-> "Connected Successfully!", shopName |-> shopName])
           failed == Respond(q, 500, [text |-> "Internal Server Error: ", message |-> Tok("err.message")])
       IN  IF Len(q.found) > 0
           THEN /\ stores' = UpdateStoreTokens(q.found[1], access, refresh)
                /\ nextId' = nextId
                /\ req' = [req EXCEPT ![r] = ok]
           ELSE /\ nextId' = nextId + 1
                /\ \/ /\ stores' = InsertStore(StoreRow(q.userId, TIKTOK, shopName, access, refresh,
                                                          Prop(tokenData, "shop_cipher"), clock))
                      /\ req' = [req EXCEPT ![r] = ok]
                   \/ /\ SqlParam(q.userId) = Null
                      /\ stores' = stores
                      /\ req' = [req EXCEPT ![r] = failed]
                   \/ /\ SelectStoreByShop(q.userId, Prop(tokenData, "shop_cipher")) # {}
                      /\ stores' = stores
                      /\ req' = [req EXCEPT ![r] = failed]
    /\ UNCHANGED <<sig, norm, configs, clock>>

(***************************************************************************)
(* POST /api/stores, DELETE /api/stores/:id (src/server.js 209-221).       *)
(***************************************************************************)
\* the (userId, marketplace) pairs of the bodies of the model
CreateInputs == {<<SELLER, TIKTOK>>, <<SELLER, "Shopee">>, <<ADMIN, TIKTOK>>}

CreateStore(r, userId, marketplace) ==
    /\ Free(r)
    /\ clock' = clock + 1
    /\ stores' = InsertStore(StoreRow(Tok(userId), marketplace, StrVal(s_Manual),
                                      Undefined, Undefined, Undefined, clock'))
    /\ nextId' = nextId + 1
    /\ req' = [req EXCEPT ![r] = Respond(NewReq("createStore"), 200, Obj([success |-> TRUE]))]
    /\ UNCHANGED <<sig, norm, configs>>

DeleteStore(r, id) ==
    /\ Free(r)
    /\ clock' = clock + 1
    /\ stores' = {s \in stores : s.id # id}
    /\ req' = [req EXCEPT ![r] = Respond(NewReq("deleteStore"), 200, Obj([success |-> TRUE]))]
    /\ UNCHANGED <<sig, norm, configs, nextId>>

(***************************************************************************)
(* POST /api/settings (src/server.js 376-394).                             *)
(***************************************************************************)
\* the `settings` objects of the model, as Object.entries lists them
SettingsInputs ==
    LET cA == CHOOSE c \in Credentials : c.app_key = StrVal(<<107, 65>>)
        cB == CHOOSE c \in Credentials : c.app_key = StrVal(<<107, 66>>)
    IN  {<<<<TIKTOK, cA>>>>, <<<<"Shopee", cB>>, <<TIKTOK, cB>>>>}

\* INSERT INTO marketplace_configs ... ON CONFLICT (user_id, marketplace)
\* DO UPDATE SET ...
UpsertConfig(table, userId, m, c) ==
    {x \in table : ~(x.user_id = SqlParam(userId) /\ x.marketplace = m)}
        \cup {[user_id |-> SqlParam(userId), marketplace |-> m,
               app_key |-> c.app_key, app_secret |-> c.app_secret]}

RECURSIVE UpsertAll(_, _, _)
\* the statements of the loop, in order
UpsertAll(table, userId, entries) ==
    IF entries = <<>> THEN table
    ELSE UpsertAll(UpsertConfig(table, userId, Head(entries)[1], Head(entries)[2]),
                   userId, Tail(entries))

\* where a save fails: nowhere, at pool.connect(), at BEGIN, at the
\* statement of entry k, or at COMMIT
NoFailure == [at |-> "none", k |-> 0]
SaveFailures(settings) ==
    {[at |-> a, k |-> 0] : a \in {"none", "connect", "begin", "commit"}}
        \cup {[at |-> "statement", k |-> k] : k \in 1..Len(settings)}

\* the entries whose statement has run when the save fails
EntriesRun(settings, fails) ==
    IF fails.at = "statement" THEN SubSeq(settings, 1, fails.k - 1)
    ELSE IF fails.at \in {"none", "commit"} THEN settings
    ELSE <<>>

\* the statements of the transaction stay in the table
Rollback_Partial(before, working) == working

\* ROLLBACK: the table is what it was at BEGIN
Rollback(before, working) == before

\* const client = await pool.connect(); finally { client.release(); }
Connect(q) == [q EXCEPT !.client = "held"]
Release(q) == [q EXCEPT !.client = "released"]

\* lines 377-393: connect, BEGIN, the upserts, COMMIT and the response; a
\* failure after connect is answered by ROLLBACK, release and status 500, a
\* failure of connect by status 500
SaveSettings(r, userId, settings, fails) ==
    /\ Free(r)
    /\ clock' = clock + 1
    /\ LET q == [NewReq("saveSettings") EXCEPT !.userId = Tok(userId), !.body = settings]
           working == UpsertAll(configs, Tok(userId), EntriesRun(settings, fails))
           error == Obj([error |-> Tok("e.message")])
       IN  IF fails.at = "connect"
           THEN /\ configs' = configs
                /\ req' = [req EXCEPT ![r] = Respond(q, 500, error)]
           ELSE IF fails.at # "none"
           THEN /\ configs' = Rollback(configs, working)
                /\ req' = [req EXCEPT ![r] = Respond(Release(Connect(q)), 500, error)]
           ELSE /\ configs' = working
                /\ req' = [req EXCEPT ![r] =
                       Respond(Release(Connect(q)), 200,
                               Obj([success |-> TRUE, message |-> Tok("Cloud DB Updated")]))]
    /\ UNCHANGED <<sig, norm, stores, nextId>>

(***************************************************************************)
(* callTikTokAPI (src/server.js 44-86).                                    *)
(***************************************************************************)
\* '/product/202309/products/search'
s_products_path == <<47, 112, 114, 111, 100, 117, 99, 116, 47, 50, 48, 50, 51, 48, 57, 47, 112, 114, 111, 100, 117, 99, 116, 115, 47, 115, 101, 97, 114, 99, 104>>
\* '/order/202309/orders/search'
s_orders_path == <<47, 111, 114, 100, 101, 114, 47, 50, 48, 50, 51, 48, 57, 47, 111, 114, 100, 101, 114, 115, 47, 115, 101, 97, 114, 99, 104>>

\* the answers of the marketplace API to one call: a transport failure
\* (axios throws), or a response whose body is `data`
ApiError == [t |-> "error"]
ApiResponse(data) == [t |-> "response", data |-> data]
ApiEnvelope(code, data) ==
    ApiResponse(Obj([code |-> NumVal(code), message |-> Tok("api-message"),
                     request_id |-> Tok("req-1"), data |-> data]))

\* const params = {app_key, timestamp, shop_cipher, version: '202309'}
CommonParams(appKey, shopCipher) ==
    << <<s_app_key, appKey>>, <<s_timestamp, NumVal(clock)>>,
       <<s_shop_cipher, shopCipher>>, <<s_version, StrVal(s_202309)>> >>

\* 'page_size'
s_page_size == <<112, 97, 103, 101, 95, 115, 105, 122, 101>>

\* the POST of the second registration of GET /api/products (lines
\* 563-568): page_size is signed and not sent, version is neither
ApiCall_V2(appKey, appSecret, accessToken, shopCipher, path, body) ==
    LET params == << <<s_app_key, appKey>>, <<s_timestamp, NumVal(clock)>>,
                     <<s_shop_cipher, shopCipher>>, <<s_page_size, NumVal(20)>> >>
        sign == calculateSignature(StringOf(appSecret), path, params)
    IN  [to |-> "api", path |-> path, body |-> body,
         params |-> << <<s_app_key, appKey>>, <<s_timestamp, NumVal(clock)>>,
                       <<s_shop_cipher, shopCipher>>,
                       <<s_sign, [t |-> "str", digest |-> sign]>> >>,
         headers |-> [x_tts_access_token |-> accessToken]]

\* the POST that callTikTokAPI sends
ApiCall(appKey, appSecret, accessToken, shopCipher, path, body) ==
    LET params == CommonParams(appKey, shopCipher)
        signature == calculateSignature(StringOf(appSecret), path, params)
    IN  [to |-> "api", path |-> path, body |-> body,
         params |-> Append(params, <<s_sign, [t |-> "str", digest |-> signature]>>),
         headers |-> [x_tts_access_token |-> accessToken]]

\* callTikTokAPI without its catch: a transport failure is thrown on
ApiResult_Rethrow(answer) ==
    IF answer.t = "error" THEN Throw
    ELSE IF Prop(answer.data, "code") # NumVal(0) THEN Null
    ELSE Prop(answer.data, "data")

\* what callTikTokAPI returns for an answer: null on a transport failure, on
\* a response without a body and on a code other than 0, else the data
ApiResult(answer) ==
    LET data == IF answer.t = "error" THEN Throw ELSE answer.data
        code == Prop(data, "code")
    IN  IF code = Throw THEN Null
        ELSE IF code # NumVal(0) THEN Null
        ELSE Prop(data, "data")

(***************************************************************************)
(* The mappings of GET /api/products and GET /api/orders.                  *)
(***************************************************************************)
\* the digits a text starts with
DigitPrefix(s) ==
    LET n == Len(s)
        k == IF \A i \in 1..n : s[i] \in 48..57 THEN n
             ELSE (CHOOSE i \in 1..n : s[i] \notin 48..57 /\ \A j \in 1..(i - 1) : s[j] \in 48..57) - 1
    IN  SubSeq(s, 1, k)

\* parseFloat and parseInt, on numbers and on the texts of the model, which
\* hold no sign and no fraction
ParseNumber(v) ==
    CASE v.t = "throw" -> Throw
      [] v.t = "num" -> v
      [] v.t = "str" /\ "s" \in DOMAIN v ->
            IF DigitPrefix(v.s) = <<>> THEN NaN ELSE NumVal(DigitsValue(DigitPrefix(v.s)))
      [] OTHER -> NaN

\* a === b on primitive values
StrictEq(a, b) == IF a.t = "throw" \/ b.t = "throw" THEN Throw ELSE [t |-> "bool", b |-> a = b]

\* the record of an object literal, or Throw when a property's expression
\* threw
Literal(o) == IF \E k \in DOMAIN o : o[k] = Throw THEN Throw ELSE Obj(o)

\* array.map(f)
MapArray(v, F(_)) ==
    IF v.t # "arr" THEN Throw
    ELSE LET mapped == [i \in 1..Len(v.a) |-> F(v.a[i])]
         IN  IF \E i \in 1..Len(mapped) : mapped[i] = Throw THEN Throw ELSE Arr(mapped)

\* the mapping of the second registration of the route (lines 570-575)
MapProduct_V2(p, store) ==
    LET skus == Prop(p, "skus")
        images == Prop(p, "main_images")
    IN  Literal(
        [id |-> Prop(p, "id"),
         storeId |-> NumVal(store.id),
         name |-> Prop(p, "title"),
         sku |-> Cond(skus, Prop(At(skus, 0), "seller_sku"), Tok("Unknown")),
         price |-> Cond(skus,
                        ParseNumber(Prop(Prop(At(skus, 0), "price"), "tax_exclusive_price")),
                        NumVal(0)),
         stock |-> Cond(skus,
                        Prop(At(Prop(At(skus, 0), "stock_infos"), 0), "available_stock"),
                        NumVal(0)),
         imageUrl |-> Cond(images, Prop(At(images, 0), "thumb_url"), Tok("")),
         sold |-> Or(Prop(p, "sales"), NumVal(0)),
         status |-> Tok("Active")])

\* lines 263-273
MapProduct(p, store) ==
    LET sku0 == And(Prop(p, "skus"), At(Prop(p, "skus"), 0))
        img0 == And(Prop(p, "main_images"), At(Prop(p, "main_images"), 0))
    IN  Literal(
        [id |-> Prop(p, "id"),
         storeId |-> NumVal(store.id),
         name |-> Prop(p, "title"),
         sku |-> Cond(sku0, Prop(At(Prop(p, "skus"), 0), "seller_sku"), Tok("NO-SKU")),
         price |-> Cond(sku0,
                        ParseNumber(Prop(Prop(At(Prop(p, "skus"), 0), "price"), "tax_exclusive_price")),
                        NumVal(0)),
         stock |-> Cond(sku0,
                        Prop(At(Prop(At(Prop(p, "skus"), 0), "inventory"), 0), "quantity"),
                        NumVal(0)),
         imageUrl |-> Cond(img0, At(Prop(At(Prop(p, "main_images"), 0), "thumb_urls"), 0), Tok("")),
         sold |-> Or(Prop(p, "sales"), NumVal(0)),
         status |-> Cond(StrictEq(Prop(p, "status"), Tok("ACTIVATE")), Tok("Active"), Tok("Inactive"))])

\* the own keys of `map` in mapTikTokStatus
StatusMap ==
    [UNPAID |-> "Unpaid", AWAITING_SHIPMENT |-> "Processing",
     AWAITING_COLLECTION |-> "Processing", IN_TRANSIT |-> "Shipped",
     DELIVERED |-> "Completed", COMPLETED |-> "Completed", CANCELLED |-> "Cancelled"]

\* property names every object inherits from Object.prototype
InheritedKeys ==
    {"constructor", "toString", "valueOf", "hasOwnProperty", "isPrototypeOf",
     "propertyIsEnumerable", "toLocaleString", "__proto__"}

\* lines 349-360: map[status] || 'Processing'
mapTikTokStatus(status) ==
    LET key == IF status.t = "str" /\ "id" \in DOMAIN status THEN status.id ELSE "<other>"
        found == IF key \in DOMAIN StatusMap THEN Tok(StatusMap[key])
                 ELSE IF key \in InheritedKeys THEN [t |-> "inherited", name |-> key]
                 ELSE Undefined
    IN  IF status.t = "throw" THEN Throw ELSE Or(found, Tok("Processing"))

\* new Date(ms).toISOString(): a RangeError on an invalid date
ToISOString(ms) ==
    IF ms.t = "throw" \/ ms.t = "nan" THEN Throw ELSE [t |-> "str", iso |-> ms.n]

\* isoString.split('T')[0]: the date, without the time of day
IsoDate(iso) ==
    IF iso.t = "throw" THEN Throw ELSE [t |-> "str", isoDate |-> iso.iso \div 86400000]

\* the quantity is read from the line item
MapLineItem_ItemQuantity(item) ==
    Literal(
        [productId |-> Prop(item, "product_id"),
         name |-> Prop(item, "product_name"),
         quantity |-> Prop(item, "quantity"),
         price |-> ParseNumber(Prop(item, "sale_price")),
         imageUrl |-> Or(Prop(item, "sku_image"), Tok(""))])

\* lines 333-339
MapLineItem(item) ==
    Literal(
        [productId |-> Prop(item, "product_id"),
         name |-> Prop(item, "product_name"),
         quantity |-> NumVal(1),
         price |-> ParseNumber(Prop(item, "sale_price")),
         imageUrl |-> Or(Prop(item, "sku_image"), Tok(""))])

\* lines 324-340
MapOrder(o, store, userId) ==
    Literal(
        [id |-> Prop(o, "id"),
         userId |-> userId,
         storeId |-> NumVal(store.id),
         customerName |-> Or(Prop(o, "buyer_email"), Tok("TikTok User")),
         status |-> mapTikTokStatus(Prop(o, "status")),
         total |-> ParseNumber(Prop(Prop(o, "payment_info"), "total_amount")),
         createdAt |-> IsoDate(ToISOString(ParseNumber(Prop(o, "create_time")))),
         updatedAt |-> ToISOString(ParseNumber(Prop(o, "update_time"))),
         items |-> MapArray(Prop(o, "line_items"), MapLineItem)])

(***************************************************************************)
(* The payloads the marketplace API answers with in the model.             *)
(***************************************************************************)
\* '15', '30'
s_15 == <<49, 53>>
s_30 == <<51, 48>>

Sku(o) == Obj(o)

\* a product with every field the mapping reads
ProductFull ==
    Obj([id |-> Tok("p1"), title |-> Tok("Shirt"), status |-> Tok("ACTIVATE"),
         sales |-> NumVal(2),
         skus |-> Arr(<<Sku([seller_sku |-> Tok("SKU-1"),
                             price |-> Obj([tax_exclusive_price |-> StrVal(s_15)]),
                             inventory |-> Arr(<<Obj([quantity |-> NumVal(3)])>>)])>>),
         main_images |-> Arr(<<Obj([thumb_urls |-> Arr(<<Tok("http://img/1")>>)])>>)])

\* a product without SKU list, images and sales count, not activated
ProductBare == Obj([id |-> Tok("p2"), title |-> Tok("Hat"), status |-> Tok("DRAFT")])

\* a product whose first SKU carries no price
ProductNoPrice ==
    Obj([id |-> Tok("p3"), title |-> Tok("Bag"), status |-> Tok("ACTIVATE"),
         skus |-> Arr(<<Sku([seller_sku |-> Tok("SKU-3"),
                             inventory |-> Arr(<<Obj([quantity |-> NumVal(1)])>>)])>>)])

LineItem(id) ==
    Obj([product_id |-> Tok(id), product_name |-> Tok("Shirt"), sale_price |-> StrVal(s_15),
         sku_image |-> Tok("http://img/1")])

\* an order with every field the mapping reads
OrderFull ==
    Obj([id |-> Tok("o1"), buyer_email |-> Tok("buyer@example.com"), status |-> Tok("UNPAID"),
         payment_info |-> Obj([total_amount |-> StrVal(s_30)]),
         create_time |-> NumVal(1700000000), update_time |-> NumVal(1700000500),
         line_items |-> Arr(<<LineItem("p1"), LineItem("p2")>>)])

\* an order without buyer email, with a status outside the table and a line
\* item without image
OrderBare ==
    Obj([id |-> Tok("o2"), status |-> Tok("ON_HOLD"),
         payment_info |-> Obj([total_amount |-> StrVal(s_15)]),
         create_time |-> NumVal(1700000000), update_time |-> NumVal(1700000500),
         line_items |-> Arr(<<Obj([product_id |-> Tok("p1"), product_name |-> Tok("Shirt"),
                                   sale_price |-> StrVal(s_15)])>>)])

\* an order without payment info
OrderNoPayment ==
    Obj([id |-> Tok("o3"), status |-> Tok("DELIVERED"),
         create_time |-> NumVal(1700000000), update_time |-> NumVal(1700000500),
         line_items |-> Arr(<<>>)])

\* the two sync operations: path, request body, the key of the list in the
\* answer
SyncOps == {"products", "orders"}
SyncPath(op) == IF op = "products" THEN s_products_path ELSE s_orders_path
SyncBody(op) ==
    IF op = "products" THEN [page_size |-> 20, status |-> "ACTIVATE"]
    ELSE [page_size |-> 20, sort_by |-> "CREATE_TIME", sort_type |-> "DESC"]
ListKey(op) == op

\* data of an answer with code 0 that carries the list `items`
ListData(op, items) ==
    IF op = "products" THEN Obj([products |-> Arr(items)]) ELSE Obj([orders |-> Arr(items)])

\* the answers to a call of the model: complete lists, an empty list, data
\* without a list, a list with an incomplete record, a nonzero code, a
\* transport failure
CompleteLists(op) ==
    IF op = "products" THEN {<<ProductFull, ProductBare>>} ELSE {<<OrderFull, OrderBare>>}
IncompleteLists(op) ==
    IF op = "products" THEN {<<ProductFull, ProductNoPrice>>} ELSE {<<OrderFull, OrderNoPayment>>}

ApiAnswers(op) ==
    {ApiError, ApiEnvelope(105002, Undefined), ApiEnvelope(0, Obj([total_count |-> NumVal(0)])),
     ApiEnvelope(0, ListData(op, <<>>))}
        \cup {ApiEnvelope(0, ListData(op, items)) : items \in CompleteLists(op) \cup IncompleteLists(op)}

(***************************************************************************)
(* GET /api/products (src/server.js 224-283) and GET /api/orders           *)
(* (src/server.js 286-347).                                                *)
(***************************************************************************)
\* if (store.marketplace === 'TikTok Shop' && tikTokConfig)
Callable(store, cfg) == store.marketplace = TIKTOK /\ cfg # <<>>

\* the index of the next store of the loop that is called, from index i on;
\* Len(rows) + 1 when there is none
NextCalled(rows, cfg, i) ==
    LET rest == {j \in i..Len(rows) : Callable(rows[j], cfg)}
    IN  IF rest = {} THEN Len(rows) + 1 ELSE CHOOSE j \in rest : \A k \in rest : j <= k

\* the loop goes on at store i, or ends with res.json(all)
Continue(q, i) ==
    IF i > Len(q.rows) THEN Respond([q EXCEPT !.idx = i], 200, Arr(q.acc))
    ELSE [q EXCEPT !.idx = i]

StoreIdInputs == {Undefined, NumVal(1)}

\* lines 226-236: SELECT the stores of the user
SyncStart(r, op, userId, storeId) ==
    /\ Free(r)
    /\ clock' = clock + 1
    /\ LET q == [NewReq(op) EXCEPT !.userId = Tok(userId), !.storeId = storeId]
           found == SelectStoresOfUser(q.userId, storeId)
       IN  IF found = {}
           THEN req' = [req EXCEPT ![r] = Respond(q, 200, Arr(<<>>))]
           ELSE \E rows \in Orderings(found) :
                    req' = [req EXCEPT ![r] = [q EXCEPT !.pc = "sync_config", !.rows = rows]]
    /\ UNCHANGED <<sig, norm, stores, configs, nextId>>

\* lines 239-240: SELECT the configuration; the loop starts
SyncConfig(r) ==
    /\ req[r].pc = "sync_config"
    /\ LET q == req[r]
           configRes == SelectConfig(ConfigOwner(q.userId), TIKTOK)
           cfgs == IF configRes = {} THEN {<<>>} ELSE {<<c>> : c \in configRes}
       IN  \E cfg \in cfgs :
               req' = [req EXCEPT ![r] =
                   Continue([q EXCEPT !.pc = "sync_loop", !.cfg = cfg], NextCalled(q.rows, cfg, 1))]
    /\ UNCHANGED <<sig, norm, stores, configs, nextId, clock>>

\* the UPDATE writes the whole row back, without its tokens
UpdateLastSync_WholeRow(id) ==
    {IF s.id = id
     THEN [s EXCEPT !.last_sync = clock, !.access_token = Null, !.refresh_token = Null]
     ELSE s : s \in stores}

\* UPDATE stores SET last_sync = NOW() WHERE id = $1
UpdateLastSync(id) ==
    {IF s.id = id THEN [s EXCEPT !.last_sync = clock] ELSE s : s \in stores}

\* if (result && result.products)
HasList(result, op) == Truthy(And(result, Prop(result, ListKey(op))))

\* the records of a store are added in reverse order
MapList_Reversed(result, op, store, userId) ==
    LET MapP(p) == MapProduct(p, store)
        MapO(o) == MapOrder(o, store, userId)
        mapped == IF op = "products" THEN MapArray(Prop(result, "products"), MapP)
                  ELSE MapArray(Prop(result, "orders"), MapO)
    IN  IF mapped = Throw THEN Throw
        ELSE Arr([i \in 1..Len(mapped.a) |-> mapped.a[Len(mapped.a) + 1 - i]])

\* result.products.map(...) / result.orders.map(...)
MapList(result, op, store, userId) ==
    LET MapP(p) == MapProduct(p, store)
        MapO(o) == MapOrder(o, store, userId)
    IN  IF op = "products" THEN MapArray(Prop(result, "products"), MapP)
        ELSE MapArray(Prop(result, "orders"), MapO)

\* lines 244-278: one pass of the loop for a store that is called: the call,
\* its answer, the UPDATE of last_sync and the mapping
SyncStore(r, answer) ==
    /\ req[r].pc = "sync_loop"
    /\ LET q == req[r]
           store == q.rows[q.idx]
           cfg == q.cfg[1]
           call == ApiCall(cfg.app_key, cfg.app_secret, store.access_token,
                           store.marketplace_shop_id, SyncPath(q.op), SyncBody(q.op))
           result == ApiResult(answer)
           q1 == [q EXCEPT !.calls = Append(q.calls,
                        call @@ [storeId |-> store.id, answer |-> answer])]
           mapped == MapList(result, q.op, store, q.userId)
       IN  IF result = Throw
           THEN /\ stores' = stores
                /\ req' = [req EXCEPT ![r] = Respond(q1, 500, Obj([error |-> Tok("err.message")]))]
           ELSE IF ~HasList(result, q.op)
           THEN /\ stores' = stores
                /\ req' = [req EXCEPT ![r] = Continue(q1, NextCalled(q.rows, q.cfg, q.idx + 1))]
           ELSE /\ stores' = UpdateLastSync(store.id)
                /\ IF mapped = Throw
                   THEN req' = [req EXCEPT ![r] = Respond(q1, 500, Obj([error |-> Tok("err.message")]))]
                   ELSE req' = [req EXCEPT ![r] =
                            Continue([q1 EXCEPT !.acc = q.acc \o mapped.a],
                                     NextCalled(q.rows, q.cfg, q.idx + 1))]
    /\ UNCHANGED <<sig, norm, configs, nextId, clock>>

(***************************************************************************)
(* Specifications.                                                         *)
(***************************************************************************)
Init ==
    /\ SysInit
    /\ sig = [secret |-> <<>>, path |-> <<>>, obj |-> <<>>, out |-> <<>>, sent |-> <<>>]
    /\ norm = NormIdle

Next ==
    \E r \in Slots :
        \/ \E code \in CodeInputs, state \in StateInputs : CallbackStart(r, code, state)
        \/ \E response \in TokenResponses : CallbackToken(r, response)
        \/ CallbackWrite(r)
        \/ \E c \in CreateInputs : CreateStore(r, c[1], c[2])
        \/ \E id \in 1..2 : DeleteStore(r, id)
        \/ \E u \in UserIds, settings \in SettingsInputs :
                \E fails \in SaveFailures(settings) : SaveSettings(r, u, settings, fails)
        \/ \E op \in SyncOps, u \in UserIds, storeId \in StoreIdInputs : SyncStart(r, op, u, storeId)
        \/ SyncConfig(r)
        \/ \E answer \in ApiAnswers(req[r].op) : SyncStore(r, answer)
        \/ Finish(r)

Spec == Init /\ [][Next]_vars

\* The steps the server takes by itself (a query of its database, the
\* mapping, the response) are taken eventually.  No request must arrive,
\* and the marketplace need not answer: axios.post is awaited without a
\* timeout option (lines 69-75), so nothing but the marketplace's answer
\* ends the wait of CallbackToken and SyncStore.
LiveSpec ==
    /\ Init
    /\ [][Next]_vars
    /\ \A r \in Slots :
            WF_vars(CallbackWrite(r)) /\ WF_vars(SyncConfig(r)) /\ WF_vars(Finish(r))

\* Two requests in progress at a time: the handlers are async functions, and
\* the server takes up another request whenever one awaits a query or a
\* call.  The administrator's credentials have been saved; a seller
\* authorizes shops and syncs.
ConcInit ==
    /\ sig = [secret |-> <<>>, path |-> <<>>, obj |-> <<>>, out |-> <<>>, sent |-> <<>>]
    /\ norm = NormIdle
    /\ stores = {}
    /\ configs = {AdminConfig}
    /\ nextId = 1
    /\ clock = 0
    /\ req = [r \in AllSlots |-> IdleReq]

\* the answers of the token endpoint when requests overlap: tokens for one
\* shop, other tokens for the same shop
ConcTokenResponses ==
    {TokenEnvelope(0, Obj(TokenData("at1", "rt1", Cipher1) @@ [seller_name |-> StrVal(s_Toko)])),
     TokenEnvelope(0, Obj(TokenData("at2", "rt2", Cipher1)))}

\* the answers of the marketplace when requests overlap: a failure, a list
ConcAnswers(op) ==
    {ApiError} \cup {ApiEnvelope(0, ListData(op, items)) : items \in CompleteLists(op)}

ConcNext ==
    \E r \in AllSlots :
        \/ CallbackStart(r, Tok("auth-code"), StateOfUser(SELLER))
        \/ \E response \in ConcTokenResponses : CallbackToken(r, response)
        \/ CallbackWrite(r)
        \/ \E op \in SyncOps : SyncStart(r, op, SELLER, Undefined)
        \/ SyncConfig(r)
        \/ \E answer \in ConcAnswers(req[r].op) : SyncStore(r, answer)
        \/ Finish(r)

ConcSpec == ConcInit /\ [][ConcNext]_vars

\* the arguments of a call, the server at rest
SigInit ==
    /\ \E secret \in SigSecrets, path \in SigPaths :
            sig = [secret |-> secret, path |-> path, obj |-> <<>>, out |-> <<>>, sent |-> <<>>]
    /\ norm = NormIdle
    /\ stores = {}
    /\ configs = {}
    /\ nextId = 1
    /\ clock = 0
    /\ req = [r \in AllSlots |-> IdleReq]

SigSpec == SigInit /\ [][SigNext]_vars

(***************************************************************************)
(* POST /api/proxy/tiktok (src/unnamed/part_002 120-168, and the same code *)
(* in src/unnamed/part_003 375-429): the request it builds.                *)
(***************************************************************************)
\* generateSignature of src/unnamed/part_002 23-31
generateSignature(appSecret, path, params) ==
    LET keys == SortKeys(SelectSeq(ObjectKeys(params), SignedKeyFilter))
        inputStr == path \o ConcatPairs(keys, params)
    IN  HmacSha256Hex(appSecret, appSecret \o inputStr \o appSecret)

RECURSIVE SpreadKeys(_, _, _)
\* the own properties of src copied to obj, key by key
SpreadKeys(obj, src, keys) ==
    IF keys = <<>> THEN obj
    ELSE SpreadKeys(Put(obj, Head(keys), Get(src, Head(keys))), src, Tail(keys))

\* {...obj, ...src}
Spread(obj, src) == SpreadKeys(obj, src, ObjectKeys(src))

\* const queryParams = {app_key, timestamp, shop_cipher, version, ...body}
ProxyQueryParams(config, store, body) ==
    Spread(<< <<s_app_key, config.app_key>>, <<s_timestamp, NumVal(clock)>>,
              <<s_shop_cipher, store.marketplace_shop_id>>, <<s_version, StrVal(s_202309)>> >>,
           body)

\* axiosConfig: lines 141-159
ProxyRequest(config, store, path, method, body) ==
    LET queryParams == ProxyQueryParams(config, store, body)
        signature == generateSignature(StringOf(config.app_secret), path, queryParams)
    IN  [to |-> "api", method |-> method, path |-> path,
         headers |-> [x_tts_access_token |-> store.access_token],
         params |-> Put(queryParams, s_sign, [t |-> "str", digest |-> signature]),
         data |-> IF method # "GET" THEN <<body>> ELSE <<>>]

\* the methods of the proxy's requests
ProxyMethods == {"GET", "POST"}

\* the store row and the configuration row that the proxy has selected
ProxyStore == [access_token |-> Tok("at1"), marketplace_shop_id |-> StrVal(Cipher1)]
ProxyConfig(secret) == [app_key |-> StrVal(<<107, 65>>), app_secret |-> StrVal(secret)]

\* the proxy builds the request for the body sig.obj
SigProxy(method) ==
    /\ sig.sent = <<>>
    /\ sig' = [sig EXCEPT !.sent =
                <<ProxyRequest(ProxyConfig(sig.secret), ProxyStore, sig.path, method, sig.obj)>>]
    /\ UNCHANGED <<norm, sysVars>>

ProxyNext ==
    \/ \E k \in SigKeys, v \in SigValues : SigPut(k, v)
    \/ \E method \in ProxyMethods : SigProxy(method)

ProxySpec == SigInit /\ [][ProxyNext]_vars

(***************************************************************************)
(* POST /api/proxy/tiktok as a route of the server: the two SELECTs, the   *)
(* call and the response (src/unnamed/part_002 120-168).                   *)
(***************************************************************************)
\* SELECT access_token, marketplace_shop_id FROM stores WHERE id = $1
SelectStoreById(storeId) ==
    {s \in stores : storeId.t = "num" /\ s.id = storeId.n}

\* the (userId, storeId) pairs of the bodies of the model
ProxyInputs == {<<Tok(u), NumVal(id)>> : u \in UserIds, id \in 1..2}

\* the answers of the marketplace to the forwarded request
ProxyAnswers == {ApiError, ApiEnvelope(0, Obj([total |-> NumVal(0)]))}

\* lines 121-161: the credentials of the user, the row of the store, the
\* request; an Error thrown on the way is answered by the catch (164-167)
ProxyStart(r, userId, storeId, method) ==
    /\ Free(r)
    /\ clock' = clock + 1
    /\ LET q == [NewReq("proxy") EXCEPT !.userId = userId, !.storeId = storeId]
           configRes == SelectConfig(userId, TIKTOK)
           storeRes == SelectStoreById(storeId)
       IN  IF configRes = {}
           THEN req' = [req EXCEPT ![r] =
                    Respond(q, 500, Obj([error |-> Tok("App Credentials not found")]))]
           ELSE IF storeRes = {}
           THEN req' = [req EXCEPT ![r] =
                    Respond(q, 500, Obj([error |-> Tok("Store not found or not connected")]))]
           ELSE \E config \in configRes, store \in storeRes :
                    req' = [req EXCEPT ![r] =
                        [q EXCEPT !.pc = "proxy_call",
                                  !.calls = <<ProxyRequest(config, store, s_products_path,
                                                           method, <<>>)>>]]
    /\ UNCHANGED <<sig, norm, stores, configs, nextId>>

\* lines 161-167: the marketplace's answer is passed on, a failure of the
\* call is answered with status 500
ProxyAnswer(r, answer) ==
    /\ req[r].pc = "proxy_call"
    /\ req' = [req EXCEPT ![r] =
            IF answer.t = "error"
            THEN Respond(req[r], 500, Obj([error |-> Tok("err.message")]))
            ELSE Respond(req[r], 200, answer.data)]
    /\ UNCHANGED <<sig, norm, stores, configs, nextId, clock>>

\* The administrator's credentials have been saved.  A seller authorizes a
\* shop, users save their credentials, and users call the proxy.
TenantNext ==
    \E r \in Slots :
        \/ CallbackStart(r, Tok("auth-code"), StateOfUser(SELLER))
        \/ \E response \in ConcTokenResponses : CallbackToken(r, response)
        \/ CallbackWrite(r)
        \/ \E c \in CreateInputs : CreateStore(r, c[1], c[2])
        \/ \E u \in UserIds, settings \in SettingsInputs : SaveSettings(r, u, settings, NoFailure)
        \/ \E in \in ProxyInputs, method \in ProxyMethods : ProxyStart(r, in[1], in[2], method)
        \/ \E answer \in ProxyAnswers : ProxyAnswer(r, answer)
        \/ Finish(r)

TenantSpec == ConcInit /\ [][TenantNext]_vars

(***************************************************************************)
(* MapSpec: the mappings applied to external records in which optional     *)
(* fields are present or missing.                                          *)
(***************************************************************************)
\* the first SKU of a product, with every field the mapping reads
SkuFull ==
    Sku([seller_sku |-> Tok("SKU-1"), price |-> Obj([tax_exclusive_price |-> StrVal(s_15)]),
         inventory |-> Arr(<<Obj([quantity |-> NumVal(3)])>>)])

\* the SKU list of a product: missing, empty, complete, without price,
\* without inventory, with an empty inventory
SkuOptions ==
    {<<>>, [skus |-> Arr(<<>>)], [skus |-> Arr(<<SkuFull>>)],
     [skus |-> Arr(<<Sku([seller_sku |-> Tok("SKU-1"),
                          inventory |-> Arr(<<Obj([quantity |-> NumVal(3)])>>)])>>)],
     [skus |-> Arr(<<Sku([seller_sku |-> Tok("SKU-1"),
                          price |-> Obj([tax_exclusive_price |-> StrVal(s_15)])])>>)],
     [skus |-> Arr(<<Sku([seller_sku |-> Tok("SKU-1"),
                          price |-> Obj([tax_exclusive_price |-> StrVal(s_15)]),
                          inventory |-> Arr(<<>>)])>>)]}

\* the main images of a product: missing, empty, complete, without thumb
\* URLs
ImageOptions ==
    {<<>>, [main_images |-> Arr(<<>>)],
     [main_images |-> Arr(<<Obj([thumb_urls |-> Arr(<<Tok("http://img/1")>>)])>>)],
     [main_images |-> Arr(<<Obj([uri |-> Tok("img-1")])>>)]}

SalesOptions == {<<>>, [sales |-> NumVal(2)]}

ProductStatuses == {Tok("ACTIVATE"), Tok("DRAFT")}

\* the external products of MapSpec
Products ==
    {Obj([id |-> Tok("p1"), title |-> Tok("Shirt"), status |-> st] @@ sk @@ im @@ sa) :
        st \in ProductStatuses, sk \in SkuOptions, im \in ImageOptions, sa \in SalesOptions}

\* the statuses of an external order: the keys of the table, other texts,
\* the empty text, names every object inherits, and no text at all
StatusInputs ==
    {Tok(k) : k \in DOMAIN StatusMap}
        \cup {Tok("ON_HOLD"), Tok("unpaid"), Tok(""), Tok("constructor"), Tok("toString"),
              Tok("__proto__"), Undefined, Null}

EmailOptions == {<<>>, [buyer_email |-> Tok("buyer@example.com")]}

PaymentOptions == {<<>>, [payment_info |-> Obj([total_amount |-> StrVal(s_30)])]}

\* the line items of an order: missing, empty, complete, two of them,
\* without image
LineItemOptions ==
    {<<>>, [line_items |-> Arr(<<>>)], [line_items |-> Arr(<<LineItem("p1")>>)],
     [line_items |-> Arr(<<LineItem("p2"), LineItem("p1")>>)],
     [line_items |-> Arr(<<Obj([product_id |-> Tok("p1"), product_name |-> Tok("Shirt"),
                               sale_price |-> StrVal(s_15)])>>)]}

\* the external orders of MapSpec
Orders ==
    {Obj([id |-> Tok("o1"), status |-> st, create_time |-> NumVal(1700000000),
          update_time |-> NumVal(1700000500)] @@ em @@ pa @@ li) :
        st \in StatusInputs, em \in EmailOptions, pa \in PaymentOptions, li \in LineItemOptions}

\* the store whose records are mapped
NormStore ==
    [StoreRow(Tok(SELLER), TIKTOK, StrVal(s_Toko), Tok("at1"), Tok("rt1"), StrVal(Cipher1), 0)
        EXCEPT !.id = 7]

\* a record or a status to map, the server at rest
MapInit ==
    /\ norm \in {[kind |-> "product", arg |-> p, out |-> <<>>] : p \in Products}
            \cup {[kind |-> "order", arg |-> o, out |-> <<>>] : o \in Orders}
            \cup {[kind |-> "status", arg |-> st, out |-> <<>>] : st \in StatusInputs}
    /\ sig = [secret |-> <<>>, path |-> <<>>, obj |-> <<>>, out |-> <<>>, sent |-> <<>>]
    /\ stores = {}
    /\ configs = {}
    /\ nextId = 1
    /\ clock = 0
    /\ req = [r \in AllSlots |-> IdleReq]

\* the function applied to the argument, by kind
NormResult(kind, arg) ==
    CASE kind = "product" -> MapProduct(arg, NormStore)
      [] kind = "order" -> MapOrder(arg, NormStore, Tok(SELLER))
      [] kind = "status" -> mapTikTokStatus(arg)

NormApply(kind) ==
    /\ norm.kind = kind
    /\ norm.out = <<>>
    /\ norm' = [norm EXCEPT !.out = <<NormResult(kind, norm.arg)>>]
    /\ UNCHANGED <<sig, sysVars>>

NormProduct == NormApply("product")
NormOrder == NormApply("order")
NormStatus == NormApply("status")

MapNext == NormProduct \/ NormOrder \/ NormStatus

MapSpec == MapInit /\ [][MapNext]_vars

(***************************************************************************)
(* Claims about calculateSignature.                                        *)
(***************************************************************************)
\* the objects that hold the pairs of obj in another insertion order
Reorderings(obj) ==
    LET n == Len(obj)
        perms == {p \in [1..n -> 1..n] : \A i, j \in 1..n : p[i] = p[j] => i = j}
    IN  {[i \in 1..n |-> obj[p[i]]] : p \in perms}

\* C1: the digest does not depend on the insertion order of the parameter
\* object: every object holding the same key/value pairs, inserted in any
\* other order, has the digest that calculateSignature returned.
C1_OrderInvariance ==
    sig.out # <<>> =>
        \A q \in Reorderings(sig.obj) :
            calculateSignature(sig.secret, sig.path, q) = sig.out[1]

\* a digest was computed for an object whose signed keys were not inserted
\* in ascending order
C1_Witness ==
    /\ sig.out # <<>>
    /\ \E i, j \in 1..Len(sig.obj) :
        /\ i < j
        /\ SignedKeyFilter(sig.obj[i][1]) /\ SignedKeyFilter(sig.obj[j][1])
        /\ StrLess(sig.obj[j][1], sig.obj[i][1])

\* obj without the key k
Without(obj, k) == SelectSeq(obj, LAMBDA kv : kv[1] # k)

\* C2: a `sign` key, an `access_token` key, or both, with any value, do not
\* change the digest: the digest returned is the digest of the object
\* without them and of the object with either or both set to any value.
C2_Exclusion ==
    sig.out # <<>> =>
        LET base == Without(Without(sig.obj, s_sign), s_access_token)
            Digest(q) == calculateSignature(sig.secret, sig.path, q)
        IN  /\ Digest(base) = sig.out[1]
            /\ \A v, w \in SigValues :
                /\ Digest(Put(sig.obj, s_sign, v)) = sig.out[1]
                /\ Digest(Put(sig.obj, s_access_token, v)) = sig.out[1]
                /\ Digest(Put(Put(sig.obj, s_sign, v), s_access_token, w)) = sig.out[1]
                /\ Digest(Put(Put(base, s_access_token, w), s_sign, v)) = sig.out[1]

\* a digest was computed for an object that holds `sign`, `access_token`
\* and a signed key
C2_Witness ==
    /\ sig.out # <<>>
    /\ HasKey(sig.obj, s_sign)
    /\ HasKey(sig.obj, s_access_token)
    /\ \E i \in 1..Len(sig.obj) : SignedKeyFilter(sig.obj[i][1])

(***************************************************************************)
(* Claims about the sync handlers.                                         *)
(***************************************************************************)
\* the call ended in a transport error or in a response code other than 0
Failed(answer) == answer.t = "error" \/ Prop(answer.data, "code") # NumVal(0)

\* the call was answered with code 0 and a list of complete records
Complete(op, answer) ==
    \E items \in CompleteLists(op) \cup {<<>>} : answer = ApiEnvelope(0, ListData(op, items))

\* the row of the request's SELECT with the given id
RowOf(q, id) == CHOOSE s \in {q.rows[i] : i \in 1..Len(q.rows)} : s.id = id

RECURSIVE RecordsOf(_, _)
\* the normalized records of the calls that did not fail, in call order
RecordsOf(q, calls) ==
    IF calls = <<>> THEN <<>>
    ELSE LET c == Head(calls)
             list == Prop(Prop(c.answer.data, "data"), ListKey(q.op)).a
             own == [i \in 1..Len(list) |->
                        IF q.op = "products" THEN MapProduct(list[i], RowOf(q, c.storeId))
                        ELSE MapOrder(list[i], RowOf(q, c.storeId), q.userId)]
         IN  (IF Failed(c.answer) THEN <<>> ELSE own) \o RecordsOf(q, Tail(calls))

\* the ids of the rows of the request that the loop calls, in row order
CalledIds(q) ==
    LET called == SelectSeq(q.rows, LAMBDA s : Callable(s, q.cfg))
    IN  [i \in 1..Len(called) |-> called[i].id]

\* a finished sync request each of whose calls failed or was answered with
\* a list of complete records
TolerantCase(q) ==
    /\ q.pc = "done"
    /\ q.op \in SyncOps
    /\ \A i \in 1..Len(q.calls) : Failed(q.calls[i].answer) \/ Complete(q.op, q.calls[i].answer)

\* C3: a sync request whose calls each fail (transport error or nonzero
\* code) or return a list of complete records ends in a success: every
\* store of the batch was called, the failures included and whatever their
\* position; the body holds exactly the normalized records of the stores
\* whose call did not fail, and no record of a store whose call failed.
C3_PartialFailureTolerance ==
    \A r \in Slots :
        LET q == req[r]
        IN  TolerantCase(q) =>
                /\ q.resp[1].status = 200
                /\ [i \in 1..Len(q.calls) |-> q.calls[i].storeId] = CalledIds(q)
                /\ q.resp[1].body = Arr(RecordsOf(q, q.calls))
                /\ \A i \in 1..Len(q.calls) :
                        Failed(q.calls[i].answer) =>
                            \A k \in 1..Len(q.resp[1].body.a) :
                                q.resp[1].body.a[k].o.storeId # NumVal(q.calls[i].storeId)

\* a sync over two stores has ended: the call of the first failed, the call
\* of the second returned records, which the response carries
C3_Witness ==
    \E r \in Slots :
        LET q == req[r]
        IN  /\ TolerantCase(q)
            /\ Len(q.calls) = 2
            /\ Failed(q.calls[1].answer)
            /\ ~Failed(q.calls[2].answer)
            /\ q.resp[1].status = 200
            /\ Len(q.resp[1].body.a) = 2

(***************************************************************************)
(* Claims about the OAuth callback.                                        *)
(***************************************************************************)
\* the rows of stores for (userId, shopId)
RowsFor(userId, shopId) ==
    {s \in stores : s.user_id = userId /\ s.marketplace_shop_id = shopId}

\* a callback for a seller has answered with the success page
CallbackSucceeded(q) ==
    /\ q.pc = "done"
    /\ q.op = "callback"
    /\ q.resp[1].status = 200
    /\ q.userId.t = "str"

\* C4: when a callback for a seller has succeeded, with requests running
\* one after the other, stores holds exactly one row for the seller and the
\* shop identifier of the exchange, and that row carries the access and the
\* refresh token of this exchange: of the second one when the row existed.
C4_UpsertIdempotence ==
    \A r \in Slots :
        LET q == req[r]
            data == q.token[1].data
            rows == RowsFor(q.userId, Prop(data, "shop_cipher"))
        IN  CallbackSucceeded(q) =>
                /\ Cardinality(rows) = 1
                /\ \A s \in rows :
                        /\ s.access_token = Prop(data, "access_token")
                        /\ s.refresh_token = Prop(data, "refresh_token")
                        /\ s.is_connected

\* a second exchange for the shop of the row named 'Toko' has succeeded:
\* the row was found, was created by the exchange that returned 'at1', and
\* the exchange now returned 'at2'
C4_Witness ==
    \E r \in Slots :
        LET q == req[r]
        IN  /\ CallbackSucceeded(q)
            /\ Len(q.found) = 1
            /\ Prop(q.token[1].data, "access_token") = Tok("at2")
            /\ \E s \in stores :
                    /\ s.id = q.found[1]
                    /\ s.store_name = StrVal(s_Toko)
                    /\ s.access_token = Tok("at2")
            /\ Cardinality(stores) >= 2

\* the query of a callback that the specification rejects: no code, or a
\* state that is not base64 of a JSON object with a string `u`
InvalidCallback(query) ==
    LET stateObj == DecodeState(query.state)
    IN  \/ ~Truthy(query.code)
        \/ stateObj = Throw
        \/ stateObj.t # "obj"
        \/ Prop(stateObj, "u").t # "str"

\* C5: a callback whose code is absent or whose state is not base64 of a
\* JSON object carrying `u` is answered at once with a rejection: it never
\* waits for the token endpoint or for the database, it has made no call,
\* and so it writes nothing.
C5_InvalidInputTerminal ==
    \A r \in Slots :
        LET q == req[r]
        IN  (q.op = "callback" /\ InvalidCallback(q.query[1])) =>
                /\ q.pc = "done"
                /\ q.resp[1].status = 400
                /\ q.calls = <<>>

\* a callback whose state decodes to {"x":1} has answered with the success
\* page after a token call, and stores holds a row without user
C5_Witness ==
    \E r \in Slots :
        LET q == req[r]
        IN  /\ q.op = "callback"
            /\ q.pc = "done"
            /\ q.query[1].state = StateOfJson(Obj([x |-> NumVal(1)]))
            /\ q.resp[1].status = 200
            /\ Len(q.calls) = 1
            /\ \E s \in stores : s.user_id = Null /\ s.access_token # Null

\* C6: the write of a callback for seller S, after the token endpoint
\* answered code 0 and when no row exists for S and the returned shop
\* identifier, adds exactly one row to stores and changes no other: the new
\* row is owned by S, is connected, and carries the returned access token,
\* refresh token and shop identifier.
C6_FirstAuthorization ==
    [][\A r \in Slots :
        LET q == req[r]
            data == q.token[1].data
        IN  (/\ q.pc = "cb_write"
             /\ req'[r].pc = "done"
             /\ q.userId.t = "str"
             /\ ~Failed(q.calls[1].answer)
             /\ RowsFor(q.userId, Prop(data, "shop_cipher")) = {})
            => /\ req'[r].resp[1].status = 200
               /\ Cardinality(stores' \ stores) = 1
               /\ stores \subseteq stores'
               /\ \A s \in stores' \ stores :
                    /\ s.id \notin {x.id : x \in stores}
                    /\ s.user_id = q.userId
                    /\ s.marketplace = TIKTOK
                    /\ s.is_connected
                    /\ s.access_token = Prop(data, "access_token")
                    /\ s.refresh_token = Prop(data, "refresh_token")
                    /\ s.marketplace_shop_id = Prop(data, "shop_cipher")]_vars

\* a callback for the seller has inserted the row of a shop while stores
\* held another row
C6_Witness ==
    \E r \in Slots :
        LET q == req[r]
        IN  /\ CallbackSucceeded(q)
            /\ q.found = <<>>
            /\ Cardinality(stores) >= 2
            /\ \E s \in stores :
                    /\ s.id = nextId - 1
                    /\ s.user_id = q.userId
                    /\ s.marketplace_shop_id = Prop(q.token[1].data, "shop_cipher")

\* the token call of a callback failed: a transport error, or a code other
\* than 0
TokenFailed(q) ==
    /\ q.op = "callback"
    /\ Len(q.calls) = 1
    /\ "answer" \in DOMAIN q.calls[1]
    /\ Failed(q.calls[1].answer)

C8_NotConfiguredMeansEmpty ==
    \A r \in Slots :
        LET q == req[r]
        IN  (q.op \in SyncOps /\ SelectConfig(q.userId, TIKTOK) = {}) =>
                /\ q.calls = <<>>
                /\ q.pc = "done" => q.resp[1] = [status |-> 200, body |-> Arr(<<>>)]

\* C9: a request that serves a user and has made a token call or a
\* marketplace call made it with the credentials of the configuration row
\* of that user.
C9_ConfigKeyedBySeller ==
    \A r \in Slots :
        LET q == req[r]
        IN  (q.userId.t = "str" /\ q.calls # <<>>) =>
                /\ q.cfg # <<>>
                /\ q.cfg[1] \in SelectConfig(q.userId, TIKTOK)

\* C10: every marketplace call of a sync request is made for a store that
\* is connected and has a non-empty access token.
C10_OnlyUsableStoresCalled ==
    \A r \in Slots :
        LET q == req[r]
        IN  q.op \in SyncOps =>
                \A i \in 1..Len(q.calls) :
                    LET store == RowOf(q, q.calls[i].storeId)
                    IN  /\ store.is_connected
                        /\ store.access_token # Null
                        /\ Truthy(store.access_token)

(***************************************************************************)
(* Claims about the mappings.                                              *)
(***************************************************************************)
\* the canonical status the table of the specification gives
CanonicalStatus(status) ==
    CASE status = Tok("UNPAID") -> Tok("Unpaid")
      [] status \in {Tok("AWAITING_SHIPMENT"), Tok("AWAITING_COLLECTION")} -> Tok("Processing")
      [] status = Tok("IN_TRANSIT") -> Tok("Shipped")
      [] status \in {Tok("DELIVERED"), Tok("COMPLETED")} -> Tok("Completed")
      [] status = Tok("CANCELLED") -> Tok("Cancelled")
      [] OTHER -> Tok("Processing")

\* C11: mapTikTokStatus returns the canonical status of the table for the
\* seven statuses of the table and Processing for every other value, the
\* empty text, an absent value and the names an object inherits included.
C11_StatusTotality ==
    (norm.kind = "status" /\ norm.out # <<>>) => norm.out[1] = CanonicalStatus(norm.arg)

\* mapTikTokStatus was applied to 'constructor' and returned the inherited
\* property of the table object instead of a status
C11_Witness ==
    /\ norm.kind = "status"
    /\ norm.arg = Tok("constructor")
    /\ norm.out = <<[t |-> "inherited", name |-> "constructor"]>>

RECURSIVE OpenRecords(_, _)
\* the normalized records of the calls that returned a list which the
\* mapping could read, in call order
OpenRecords(q, calls) ==
    IF calls = <<>> THEN <<>>
    ELSE LET c == Head(calls)
             result == ApiResult(c.answer)
             mapped == MapList(result, q.op, RowOf(q, c.storeId), q.userId)
         IN  (IF ~HasList(result, q.op) THEN <<>>
              ELSE IF mapped = Throw THEN <<>>
              ELSE mapped.a) \o OpenRecords(q, Tail(calls))

\* C12: whatever the answers to its calls, a finished sync request has
\* answered 200 with the records of the stores whose call succeeded, the
\* empty list when none did.
C12_FailsOpen ==
    \A r \in Slots :
        LET q == req[r]
        IN  (q.pc = "done" /\ q.op \in SyncOps) =>
                /\ q.resp[1].status = 200
                /\ q.resp[1].body = Arr(OpenRecords(q, q.calls))

\* a sync over two stores has answered 500: the first call returned
\* complete records, the second a record the mapping cannot read
C12_Witness ==
    \E r \in Slots :
        LET q == req[r]
        IN  /\ q.pc = "done"
            /\ q.op \in SyncOps
            /\ Len(q.calls) = 2
            /\ \E items \in CompleteLists(q.op) :
                    q.calls[1].answer = ApiEnvelope(0, ListData(q.op, items))
            /\ \E items \in IncompleteLists(q.op) :
                    q.calls[2].answer = ApiEnvelope(0, ListData(q.op, items))
            /\ q.resp[1].status = 500
            /\ Len(q.acc) = 2


(***************************************************************************)
(* C13: the access token is never a query parameter.  For every request    *)
(* built by POST /api/proxy/tiktok, whatever the body, the access token is *)
(* in the x-tts-access-token header and the query parameters hold no       *)
(* access_token key.                                                       *)
(***************************************************************************)
C13_TokenNeverInQuery ==
    sig.sent # <<>> =>
        /\ sig.sent[1].headers.x_tts_access_token = ProxyStore.access_token
        /\ ~HasKey(sig.sent[1].params, s_access_token)

\* a body that names access_token reaches the query parameters
C13_Witness ==
    /\ sig.sent # <<>>
    /\ HasKey(sig.obj, s_access_token)
    /\ HasKey(sig.sent[1].params, s_access_token)
    /\ sig.sent[1].headers.x_tts_access_token = ProxyStore.access_token

(***************************************************************************)
(* Claims about the result of a sync.                                      *)
(***************************************************************************)
\* the first element of the list p[k], if the product has one
FirstOf(p, k) ==
    IF k \in DOMAIN p.o /\ p.o[k].t = "arr" /\ p.o[k].a # <<>> THEN <<p.o[k].a[1]>> ELSE <<>>

\* the canonical product of an external product for the store storeId
CanonicalProduct(p, storeId) ==
    LET firstSku == FirstOf(p, "skus")
        firstImage == FirstOf(p, "main_images")
    IN  Obj([id |-> p.o.id,
             storeId |-> NumVal(storeId),
             name |-> p.o.title,
             sku |-> IF firstSku = <<>> THEN Tok("NO-SKU") ELSE firstSku[1].o.seller_sku,
             price |-> IF firstSku = <<>> THEN NumVal(0)
                       ELSE ParseNumber(firstSku[1].o.price.o.tax_exclusive_price),
             stock |-> IF firstSku = <<>> THEN NumVal(0)
                       ELSE firstSku[1].o.inventory.a[1].o.quantity,
             imageUrl |-> IF firstImage = <<>> THEN Tok("") ELSE firstImage[1].o.thumb_urls.a[1],
             sold |-> IF "sales" \in DOMAIN p.o THEN p.o.sales ELSE NumVal(0),
             status |-> IF p.o.status = Tok("ACTIVATE") THEN Tok("Active") ELSE Tok("Inactive")])

\* a finished product sync over one store whose call was answered with
\* code 0 and a list of products
OneStoreCase(q) ==
    /\ q.pc = "done"
    /\ q.op = "products"
    /\ Len(q.rows) = 1
    /\ Len(q.calls) = 1
    /\ Complete(q.op, q.calls[1].answer)

C15_NormalizerTotality ==
    (norm.kind \in {"product", "order"} /\ norm.out # <<>>) =>
        /\ norm.out[1] # Throw
        /\ norm.kind = "product" =>
                /\ norm.out[1].o.sku.t = "str"
                /\ norm.out[1].o.price.t = "num"
                /\ norm.out[1].o.stock.t = "num"
                /\ norm.out[1].o.imageUrl.t = "str"
                /\ norm.out[1].o.sold.t = "num"
        /\ norm.kind = "order" =>
                /\ norm.out[1].o.customerName.t = "str"
                /\ norm.out[1].o.total.t = "num"
                /\ norm.out[1].o.items.t = "arr"

\* a product whose first SKU carries no price has been mapped: the mapping
\* raised an error
C15_Witness ==
    /\ norm.kind = "product"
    /\ "skus" \in DOMAIN norm.arg.o
    /\ norm.arg.o.skus.a # <<>>
    /\ "price" \notin DOMAIN norm.arg.o.skus.a[1].o
    /\ norm.out = <<Throw>>

(***************************************************************************)
(* C16: one call per store.  Within one sync request the marketplace is    *)
(* called exactly once for each TikTok Shop store that the request selects *)
(* (all of the seller's stores, or the one named by storeId), in row       *)
(* order, never for a store of another marketplace and never twice for the *)
(* same store.                                                             *)
(***************************************************************************)
C16_OneCallPerStore ==
    \A r \in Slots :
        LET q == req[r]
        IN  (q.pc = "done" /\ q.op \in SyncOps) =>
                [i \in 1..Len(q.calls) |-> q.calls[i].storeId] = CalledIds(q)

\* a sync over two TikTok Shop stores has ended after the call of the
\* first: the second store was never called
C16_Witness ==
    \E r \in Slots :
        LET q == req[r]
        IN  /\ q.pc = "done"
            /\ q.op \in SyncOps
            /\ Len(CalledIds(q)) = 2
            /\ Len(q.calls) = 1
            /\ q.calls[1].storeId = CalledIds(q)[1]
            /\ q.resp[1].status = 500

(***************************************************************************)
(* C17: bounded wait per store.  Every call of the marketplace carries a   *)
(* timeout, so a sync request that is waiting for the answer of a store    *)
(* eventually responds, even when that answer never arrives.               *)
(***************************************************************************)
C17_BoundedWait ==
    \A r \in Slots : (req[r].pc = "sync_loop") ~> (req[r].pc = "done")

\* a sync over two stores holds the records of the first store and waits
\* for the answer of the second
C17_Witness ==
    \E r \in Slots :
        LET q == req[r]
        IN  /\ q.pc = "sync_loop"
            /\ Len(CalledIds(q)) = 2
            /\ Len(q.calls) = 1
            /\ q.acc # <<>>

(***************************************************************************)
(* Claims about the signature of a request.                                *)
(***************************************************************************)
\* the keys of params other than sign and access_token, as the one
\* sequence without repetition that is strictly ascending
AscendingKeys(params) ==
    LET K == {params[i][1] : i \in 1..Len(params)} \ {s_sign, s_access_token}
        n == Cardinality(K)
    IN  CHOOSE ks \in [1..n -> K] :
            \A i, j \in 1..n : i < j => StrLess(ks[i], ks[j])

\* the position of key k in params
PositionOf(params, k) == CHOOSE i \in 1..Len(params) : params[i][1] = k

\* key 1, string of value 1, ..., key n, string of value n
PairsUpTo(params, ks, n) ==
    LET Piece[m \in 0..n] ==
            IF m = 0 THEN <<>>
            ELSE Piece[m - 1] \o ks[m] \o StringOf(params[PositionOf(params, ks[m])][2])
    IN  Piece[n]

\* C18: calculateSignature(appSecret, path, params) is the HMAC-SHA256,
\* keyed with appSecret, of exactly appSecret, then path, then for each key
\* of params other than sign and access_token, in ascending order, the key
\* followed by the string form of its value, then appSecret.
C18_SignedString ==
    sig.out # <<>> =>
        LET ks == AscendingKeys(sig.obj)
        IN  sig.out[1] =
                HmacSha256Hex(sig.secret,
                    sig.secret \o sig.path \o PairsUpTo(sig.obj, ks, Len(ks)) \o sig.secret)

\* a digest was computed for parameters inserted as timestamp: 10,
\* access_token, app_key: the signed string holds app_key before timestamp,
\* the number as the text '10', and no access_token
C18_Witness ==
    /\ sig.out # <<>>
    /\ Len(sig.obj) = 3
    /\ sig.obj[1] = <<s_timestamp, NumVal(10)>>
    /\ sig.obj[2][1] = s_access_token
    /\ sig.obj[3] = <<s_app_key, StrVal(<<120>>)>>
    /\ sig.out[1].msg =
            sig.secret \o sig.path \o s_app_key \o <<120>> \o s_timestamp \o <<49, 48>> \o sig.secret

NonemptyList(op, answer) ==
    /\ ~Failed(answer)
    /\ LET list == Prop(Prop(answer.data, "data"), ListKey(op))
       IN  list.t = "arr" /\ list.a # <<>>

\* the row of stores with the given id
StoreOf(id) == CHOOSE s \in stores : s.id = id

\* C20: last_sync follows success only.  During a sync request the
\* last_sync of a store that was called is the time of the request if and
\* only if its call was answered with code 0 and a nonempty list; after a
\* failed call, a nonzero code, data without a list or an empty list it is
\* the value it had before.
C20_LastSyncFollowsSuccess ==
    \A r \in Slots :
        LET q == req[r]
        IN  q.op \in SyncOps =>
                \A i \in 1..Len(q.calls) :
                    (StoreOf(q.calls[i].storeId).last_sync = clock)
                        <=> NonemptyList(q.op, q.calls[i].answer)

\* the call of a store was answered with code 0 and an empty list, and the
\* store's last_sync is the time of the request
C20_Witness ==
    \E r \in Slots :
        LET q == req[r]
        IN  /\ q.op \in SyncOps
            /\ q.calls # <<>>
            /\ q.calls[1].answer = ApiEnvelope(0, ListData(q.op, <<>>))
            /\ StoreOf(q.calls[1].storeId).last_sync = clock

(***************************************************************************)
(* Claims about the aggregate of a sync.                                   *)
(***************************************************************************)
\* the list that a call was answered with; empty for a call that failed or
\* whose answer holds no list
ReturnedList(op, answer) ==
    IF Failed(answer) THEN <<>>
    ELSE LET list == Prop(Prop(answer.data, "data"), ListKey(op))
         IN  IF list.t = "arr" THEN list.a ELSE <<>>

\* the number of records returned by the first n calls
ReturnedUpTo(q, n) ==
    LET Sum[m \in 0..n] ==
            IF m = 0 THEN 0 ELSE Sum[m - 1] + Len(ReturnedList(q.op, q.calls[m].answer))
    IN  Sum[n]

\* C21: the list that a sync request returns is the concatenation of the
\* records of its successful calls: it holds as many records as the calls
\* returned, the records of call i form one block that follows the blocks
\* of the calls before it, record k of the block is the record of the k-th
\* element of the list returned, and it carries the storeId of the store
\* called.
C21_AggregateShape ==
    \A r \in Slots :
        LET q == req[r]
        IN  (q.pc = "done" /\ q.op \in SyncOps /\ q.resp[1].status = 200) =>
                /\ Len(q.resp[1].body.a) = ReturnedUpTo(q, Len(q.calls))
                /\ \A i \in 1..Len(q.calls) :
                        LET list == ReturnedList(q.op, q.calls[i].answer)
                        IN  \A k \in 1..Len(list) :
                                LET rec == q.resp[1].body.a[ReturnedUpTo(q, i - 1) + k]
                                IN  /\ rec.o.id = list[k].o.id
                                    /\ rec.o.storeId = NumVal(q.calls[i].storeId)

\* a sync over two stores has returned four records: the two of the first
\* store, then the two of the second
C21_Witness ==
    \E r \in Slots :
        LET q == req[r]
        IN  /\ q.pc = "done"
            /\ q.op \in SyncOps
            /\ q.resp[1].status = 200
            /\ Len(q.calls) = 2
            /\ Len(q.resp[1].body.a) = 4
            /\ q.resp[1].body.a[1].o.id # q.resp[1].body.a[2].o.id
            /\ q.resp[1].body.a[2].o.storeId = NumVal(q.calls[1].storeId)
            /\ q.resp[1].body.a[3].o.storeId = NumVal(q.calls[2].storeId)
            /\ q.calls[1].storeId # q.calls[2].storeId

(***************************************************************************)
(* Claims about the rows that a callback writes.                           *)
(***************************************************************************)
\* the expiry of a token returned now with the given lifetime
ExpiryOf(tokenData) == [t |-> "time", now |-> clock, plus |-> Prop(tokenData, "access_token_expire_in")]

\* the name of the store of an exchange: the seller name returned or, when
\* there is none, a name made from the shop identifier
NameOf(tokenData) ==
    IF "seller_name" \in DOMAIN tokenData.o THEN tokenData.o.seller_name
    ELSE StrVal(s_TikTok_Shop_ \o SubSeq(tokenData.o.shop_cipher.s, 1, 6))

\* C22: after a successful exchange for a seller and a shop, the row of
\* the seller and the shop holds the access token, the refresh token and
\* the token expiry returned, is connected and has last_sync refreshed; a
\* row that was inserted also holds the seller, the marketplace, the shop
\* identifier and the store name (the seller name returned, else a name
\* made from the shop identifier).
C22_UpsertFields ==
    \A r \in Slots :
        LET q == req[r]
            data == q.token[1].data
        IN  CallbackSucceeded(q) =>
                \A s \in RowsFor(q.userId, Prop(data, "shop_cipher")) :
                    /\ s.access_token = data.o.access_token
                    /\ s.refresh_token = data.o.refresh_token
                    /\ s.token_expiry = ExpiryOf(data)
                    /\ s.is_connected
                    /\ s.last_sync = clock
                    /\ q.found = <<>> =>
                            /\ s.user_id = q.userId
                            /\ s.marketplace = TIKTOK
                            /\ s.marketplace_shop_id = data.o.shop_cipher
                            /\ s.store_name = NameOf(data)

\* an exchange has inserted a row with the tokens returned and a name made
\* from the shop identifier; the row holds no token expiry
C22_Witness ==
    \E r \in Slots :
        LET q == req[r]
            data == q.token[1].data
        IN  /\ CallbackSucceeded(q)
            /\ q.found = <<>>
            /\ "seller_name" \notin DOMAIN data.o
            /\ \E s \in RowsFor(q.userId, Prop(data, "shop_cipher")) :
                    /\ s.access_token = data.o.access_token
                    /\ s.store_name = NameOf(data)
                    /\ s.token_expiry = Null

\* the step is the write of a callback that answers with the success page
CallbackWrites(r) ==
    /\ req[r].pc = "cb_write"
    /\ req'[r].pc = "done"
    /\ req'[r].resp[1].status = 200

\* C23: the write of a successful callback creates one row, or changes one
\* row in place, and that row holds the shop identifier of the exchange;
\* every other row of stores is after the step what it was before.
C23_OneRowTouched ==
    [][\A r \in Slots :
            CallbackWrites(r) =>
                LET cipher == Prop(req[r].token[1].data, "shop_cipher")
                IN  \/ \E new \in stores' \ stores :
                            /\ stores' = stores \cup {new}
                            /\ \A s \in stores : s.id # new.id
                            /\ new.marketplace_shop_id = cipher
                    \/ \E old \in stores, new \in stores' :
                            /\ new.id = old.id
                            /\ stores' \ {new} = stores \ {old}
                            /\ new.marketplace_shop_id = cipher]_vars

\* a callback for a seller has succeeded while stores holds another row
\* with the same shop identifier, and the table holds two rows
C23_Witness ==
    \E r \in Slots :
        LET q == req[r]
            cipher == Prop(q.token[1].data, "shop_cipher")
        IN  /\ CallbackSucceeded(q)
            /\ Cardinality(stores) = 2
            /\ \E s \in stores : s.user_id = q.userId /\ s.marketplace_shop_id = cipher
            /\ \E s \in stores : s.user_id # q.userId /\ s.marketplace_shop_id = cipher

(***************************************************************************)
(* Claims about requests that overlap.                                     *)
(***************************************************************************)
\* C24: in every reachable state, also when callbacks for the same seller
\* and the same shop overlap, stores holds at most one row for a seller and
\* a shop identifier.
C24_NaturalKeyUnique ==
    \A s1, s2 \in stores :
        (SqlEq(s1.user_id, s2.user_id) /\ SqlEq(s1.marketplace_shop_id, s2.marketplace_shop_id))
            => s1 = s2

\* two callbacks of the seller for one shop have both inserted a row
C24_Witness ==
    /\ \A r \in AllSlots : req[r].op = "callback" /\ req[r].pc = "done"
                             /\ req[r].resp[1].status = 200 /\ req[r].found = <<>>
    /\ \E s1, s2 \in stores :
            /\ s1.id # s2.id
            /\ s1.user_id = Tok(SELLER) /\ s2.user_id = Tok(SELLER)
            /\ s1.marketplace_shop_id = StrVal(Cipher1)
            /\ s2.marketplace_shop_id = StrVal(Cipher1)

(***************************************************************************)
(* Claims about the configuration lookup of the callback.                  *)
(***************************************************************************)
\* marketplace_configs holds no row that the lookup of the callback selects
NoCallbackConfig ==
    \A c \in configs : ~(c.user_id = Tok(ADMIN) /\ c.marketplace = TIKTOK)

\* the callback with this query reaches its configuration lookup
ReachesLookup(query) ==
    Truthy(query.code) /\ CallbackUser(DecodeState(query.state)) # Throw

\* C25: a callback whose configuration lookup finds no row answers with a
\* configuration-missing error, without a call of the token endpoint and
\* without a write to stores; a callback makes its token call only after a
\* lookup that found a row, with the credentials of that row.
C25_MissingConfigStops ==
    [][\A r \in Slots :
            LET q == req[r]
                q1 == req'[r]
            IN  /\ (q.pc = "idle" /\ q1.op = "callback" /\ ReachesLookup(q1.query[1])
                        /\ NoCallbackConfig) =>
                        /\ q1.pc = "done"
                        /\ q1.resp[1].status = 400
                        /\ q1.resp[1].body.text = "System Error: Admin keys missing."
                        /\ q1.calls = <<>>
                        /\ stores' = stores
                /\ (q1.op = "callback" /\ q1.calls # <<>>) =>
                        /\ q1.cfg # <<>>
                        /\ q1.calls[1].app_key = q1.cfg[1].app_key
                        /\ q1.calls[1].app_secret = q1.cfg[1].app_secret]_vars

\* a callback of a seller with a code has been answered 400 while the
\* seller's own credentials are on file and the administrator's are not
C25_Witness ==
    \E r \in Slots :
        LET q == req[r]
        IN  /\ q.op = "callback"
            /\ q.pc = "done"
            /\ ReachesLookup(q.query[1])
            /\ q.userId = Tok(SELLER)
            /\ NoCallbackConfig
            /\ configs # {}
            /\ q.resp[1].status = 400
            /\ q.calls = <<>>

(***************************************************************************)
(* Claims about the order mapping.                                         *)
(***************************************************************************)
\* C26: an external order that carries its payment info and its line items
\* maps to one canonical order: its id is the order's, its status is
\* mapTikTokStatus of the external status, its userId the requesting
\* seller, its storeId the store called; it has as many line items as the
\* external order, the k-th being the k-th external line item, each with
\* quantity 1.
C26_OrderMapping ==
    (/\ norm.kind = "order"
     /\ norm.out # <<>>
     /\ {"payment_info", "line_items"} \subseteq DOMAIN norm.arg.o) =>
        LET order == norm.out[1]
            lines == norm.arg.o.line_items.a
        IN  /\ order.t = "obj"
            /\ order.o.id = norm.arg.o.id
            /\ order.o.status = mapTikTokStatus(norm.arg.o.status)
            /\ order.o.userId = Tok(SELLER)
            /\ order.o.storeId = NumVal(NormStore.id)
            /\ order.o.items.t = "arr"
            /\ Len(order.o.items.a) = Len(lines)
            /\ \A k \in 1..Len(lines) :
                    /\ order.o.items.a[k].o.productId = lines[k].o.product_id
                    /\ order.o.items.a[k].o.name = lines[k].o.product_name
                    /\ order.o.items.a[k].o.quantity = NumVal(1)

\* an order with two line items, p2 before p1, and the status DELIVERED has
\* been mapped
C26_Witness ==
    /\ norm.kind = "order"
    /\ norm.out # <<>>
    /\ norm.arg.o.status = Tok("DELIVERED")
    /\ norm.out[1].t = "obj"
    /\ norm.out[1].o.status = Tok("Completed")
    /\ Len(norm.out[1].o.items.a) = 2
    /\ norm.out[1].o.items.a[1].o.productId = Tok("p2")
    /\ norm.out[1].o.items.a[2].o.productId = Tok("p1")

\* the step is taken by a sync request
SyncSteps(r) ==
    \/ req[r].op \in SyncOps /\ req'[r] # req[r]
    \/ req[r].pc = "idle" /\ req'[r].op \in SyncOps

\* the rows of a table without their last_sync
WithoutLastSync(table) == {[s EXCEPT !.last_sync = 0] : s \in table}

\* C27: a sync writes only last_sync.  Whatever requests overlap, a step
\* of a sync request leaves every row of stores with the owner, the shop,
\* the name, the access token, the refresh token and the connected flag it
\* had, and adds or removes no row: what a re-authorization wrote before,
\* between or after the steps of a sync of the same store stays in effect.
C27_SyncKeepsCredentials ==
    [][(\E r \in AllSlots : SyncSteps(r)) =>
            WithoutLastSync(stores') = WithoutLastSync(stores)]_vars

\* a re-authorization of a store and a sync of the same store have both
\* finished, overlapping: the sync selected the row with the old token and
\* wrote last_sync; the row holds the tokens of the re-authorization
C27_Witness ==
    \E a, b \in AllSlots :
        LET cb == req[a]
            sy == req[b]
        IN  /\ cb.op = "callback" /\ cb.pc = "done" /\ cb.resp[1].status = 200
            /\ Len(cb.found) = 1
            /\ sy.op \in SyncOps /\ sy.pc = "done" /\ sy.resp[1].status = 200
            /\ Len(sy.calls) = 1
            /\ sy.calls[1].storeId = cb.found[1]
            /\ sy.calls[1].headers.x_tts_access_token # Prop(cb.token[1].data, "access_token")
            /\ sy.resp[1].body.a # <<>>
            /\ \E s \in stores :
                    /\ s.id = cb.found[1]
                    /\ s.access_token = Prop(cb.token[1].data, "access_token")
                    /\ s.refresh_token = Prop(cb.token[1].data, "refresh_token")
                    /\ s.is_connected
                    /\ s.last_sync = clock

(***************************************************************************)
(* Claims about the isolation of sellers.                                  *)
(***************************************************************************)
\* C28: for a sync request with userId U and any storeId, the id of
\* another seller's store included: every call carries the access token
\* and the shop identifier of a store that U owns, every record collected
\* or returned has the storeId of a store that U owns, and a step of the
\* request changes last_sync only in rows that U owns.
C28_SyncTenantIsolation ==
    [][\A r \in Slots :
            LET q == req'[r]
                owned == {s \in stores' : s.user_id = q.userId}
            IN  q.op \in SyncOps =>
                    /\ \A i \in 1..Len(q.calls) :
                            \E s \in owned :
                                /\ s.id = q.calls[i].storeId
                                /\ q.calls[i].headers.x_tts_access_token = s.access_token
                                /\ Get(q.calls[i].params, s_shop_cipher) = s.marketplace_shop_id
                    /\ \A k \in 1..Len(q.acc) :
                            \E s \in owned : q.acc[k].o.storeId = NumVal(s.id)
                    /\ (q.pc = "done" /\ q.resp[1].status = 200) =>
                            \A k \in 1..Len(q.resp[1].body.a) :
                                \E s \in owned : q.resp[1].body.a[k].o.storeId = NumVal(s.id)
                    /\ \A s \in stores, s1 \in stores' :
                            (s.id = s1.id /\ s.last_sync # s1.last_sync) => s.user_id = q.userId]_vars

\* a seller asked for the store of another owner by its id while the
\* credentials are on file: the request ended without a call, with an empty
\* list, and the store's last_sync is the time of its creation
C28_Witness ==
    \E r \in Slots :
        LET q == req[r]
        IN  /\ q.op \in SyncOps
            /\ q.pc = "done"
            /\ q.userId = Tok(SELLER)
            /\ q.storeId = NumVal(1)
            /\ configs # {}
            /\ \E s \in stores :
                    /\ s.id = 1
                    /\ s.user_id = Tok(ADMIN)
                    /\ s.marketplace = TIKTOK
                    /\ s.last_sync < clock
            /\ q.calls = <<>>
            /\ q.resp[1] = [status |-> 200, body |-> Arr(<<>>)]

(***************************************************************************)
(* C29                                                                     *)
(***************************************************************************)
\* the rows of stores that userId owns and that are connected
ConnectedStoresOf(userId) ==
    {s \in stores : SqlEq(s.user_id, SqlParam(userId)) /\ s.is_connected}

\* C29: tenant isolation of the universal proxy.  A request of user U for
\* store X that the proxy forwards goes out for a store X that U owns and
\* that is connected, with that row's access token; for any other store no
\* request goes out and the response is an error.
C29_ProxyTenantIsolation ==
    \A r \in Slots :
        LET q == req[r]
            owned == {s \in ConnectedStoresOf(q.userId) : s.id = q.storeId.n}
        IN  q.op = "proxy" =>
                /\ q.calls # <<>> =>
                        \E s \in owned : q.calls[1].headers.x_tts_access_token = s.access_token
                /\ (owned = {} /\ q.pc = "done") =>
                        q.calls = <<>> /\ q.resp[1].status = 500

\* the administrator's request for the seller's store has gone out, carrying
\* the seller's access token
C29_Witness ==
    \E r \in Slots, s \in stores :
        /\ req[r].op = "proxy"
        /\ req[r].userId = Tok(ADMIN)
        /\ s.user_id = Tok(SELLER)
        /\ s.id = req[r].storeId.n
        /\ s.access_token = Tok("at1")
        /\ req[r].calls # <<>>
        /\ req[r].calls[1].headers.x_tts_access_token = s.access_token

(***************************************************************************)
(* C30                                                                     *)
(***************************************************************************)
\* the step in which request r, a save of settings, is handled
SaveSteps(r) == req[r].pc = "idle" /\ req'[r].op = "saveSettings"

\* the marketplaces named by the entries of a settings object
EntryKeys(settings) == {settings[i][1] : i \in DOMAIN settings}

\* the rows of a table for one user and one marketplace
ConfigsOf(table, userId, m) == {c \in table : c.user_id = userId /\ c.marketplace = m}

\* C30: a save of settings is all-or-nothing and keeps the natural key
\* unique.  With a success response every entry has its one row, holding
\* the entry's values, and the rows of other keys are untouched; with an
\* error response marketplace_configs is exactly what it was.  After the
\* save no two rows share (user_id, marketplace), and the request does not
\* hold a database client.
C30_SettingsAllOrNothing ==
    [][\A r \in Slots :
            SaveSteps(r) =>
                LET q == req'[r]
                    status == q.resp[1].status
                    keys == EntryKeys(q.body)
                IN  /\ q.pc = "done"
                    /\ status \in {200, 500}
                    /\ status = 500 => configs' = configs
                    /\ status = 200 =>
                        /\ \A i \in DOMAIN q.body :
                                ConfigsOf(configs', q.userId, q.body[i][1]) =
                                    {[user_id |-> q.userId, marketplace |-> q.body[i][1],
                                      app_key |-> q.body[i][2].app_key,
                                      app_secret |-> q.body[i][2].app_secret]}
                        /\ {c \in configs' : ~(c.user_id = q.userId /\ c.marketplace \in keys)}
                                = {c \in configs : ~(c.user_id = q.userId /\ c.marketplace \in keys)}
                    /\ \A a, b \in configs' :
                            (a.user_id = b.user_id /\ a.marketplace = b.marketplace) => a = b
                    /\ q.client # "held"]_vars

\* a save of two entries has failed after its client was connected, and the
\* user's row still holds the values of an earlier save, which are not the
\* values of the failed one
C30_Witness ==
    \E r \in Slots :
        LET q == req[r]
        IN  /\ q.op = "saveSettings"
            /\ q.pc = "done"
            /\ Len(q.body) = 2
            /\ q.resp[1].status = 500
            /\ q.client = "released"
            /\ \E i \in DOMAIN q.body, c \in configs :
                    /\ c.user_id = q.userId
                    /\ c.marketplace = q.body[i][1]
                    /\ c.app_key # q.body[i][2].app_key

====
